---- MODULE Spec2Model ----
(***************************************************************************)
(* A model of the trigger coordination of the advanced camera card:       *)
(* TriggersManager (src/src/card-controller/triggers-manager.ts) and the  *)
(* camera classes that feed it with CameraEvent values.                    *)
(*                                                                         *)
(* JavaScript runs one task at a time, and an async method runs without    *)
(* interruption up to its next await.  Every action below is one such     *)
(* uninterrupted run: a handler from its call to its first suspension, a   *)
(* timer callback, or the continuation of a suspended method.  What the    *)
(* manager reads from its collaborators (configuration, selected camera,   *)
(* interaction state, camera dependencies) is an input of the run that     *)
(* reads it, so that it may differ between any two runs.                   *)
(***************************************************************************)
EXTENDS Integers, Sequences, FiniteSets, TLC

\* ------------------------------------------------------------------ bounds

\* Timer objects in existence (running, or held by a state) at one time.
MaxTimers == 3
\* Ticks of the clock (Date) in one behaviour.
MaxTime == 1
\* Suspended _untriggerAction calls at one time.
MaxInFlight == 1
\* Suspended _triggerAction calls for the events of one camera at one time.
MaxTriggerInFlight == 1
\* The count of dispatches per camera saturates here.
MaxDispatched == 2
\* The count of accepted events per source saturates here.
MaxAccepted == 2

\* ----------------------------------------------------------------- domains

Cameras == {"camera_1", "camera_2"}
Sources == {"entity_1", "entity_2"}

\* getView()?.camera when there is no view.
NoCamera == "no_camera"
\* state.untriggerDelayTimer when the field is absent.
NoTimer == 0
TimerIDs == 1..MaxTimers

\* CameraEvent (src/unnamed/part_000, 140-157).  An absent fidelity is "low",
\* absent clip and snapshot are FALSE.
CameraEvent(cameraID, id, type, fidelity, clip, snapshot) ==
    [cameraID |-> cameraID, id |-> id, type |-> type,
     fidelity |-> fidelity, clip |-> clip, snapshot |-> snapshot]

NoEvent == CameraEvent("no_camera", "no_source", "none", "low", FALSE, FALSE)

\* The events of trigger entities (low fidelity, no media flags).
EntityEvents ==
    {CameraEvent(c, s, t, "low", FALSE, FALSE) :
        c \in Cameras, s \in Sources, t \in {"new", "update", "end"}}

\* ----------------------------------------------------------- configuration

\* The card configuration as getConfig() returns it; present = FALSE is the
\* null configuration (and a configuration without view.triggers).
Config(present, seconds, filter, trigger, untrigger, mode, default) ==
    [present |-> present,
     untrigger_seconds |-> seconds,
     filter_selected_camera |-> filter,
     trigger |-> trigger,
     untrigger |-> untrigger,
     interaction_mode |-> mode,
     default |-> default]

NullConfig == Config(FALSE, 0, FALSE, "none", "none", "all", "live")

\* The grace periods a configuration may hold: none, and ten seconds.
GraceSeconds == {0, 10}

TriggerActions == {"none", "update", "live", "default", "media"}
UntriggerActions == {"none", "default"}
InteractionModes == {"all", "active", "inactive"}
DefaultViews == {"live", "clips"}

AllConfigs ==
    {NullConfig} \cup
    {Config(TRUE, g, f, t, u, m, d) :
        g \in GraceSeconds, f \in BOOLEAN, t \in TriggerActions,
        u \in UntriggerActions, m \in InteractionModes, d \in DefaultViews}

\* The configurations of the life-cycle specification: every grace period,
\* filter setting and untrigger action, with one trigger action.
LifecycleConfigs ==
    {NullConfig} \cup
    {Config(TRUE, g, f, "live", u, "inactive", "live") :
        g \in GraceSeconds, f \in BOOLEAN, u \in UntriggerActions}

\* Camera dependency declarations (dependencies.all_cameras and
\* dependencies.cameras of each camera configuration).
Dependencies(all1, cams1, all2, cams2) ==
    [c \in Cameras |->
        IF c = "camera_1" THEN [all_cameras |-> all1, cameras |-> cams1]
        ELSE [all_cameras |-> all2, cameras |-> cams2]]

DependencyConfigs ==
    {Dependencies(FALSE, {}, FALSE, {}),
     Dependencies(FALSE, {}, FALSE, {"camera_1"}),
     Dependencies(TRUE, {}, FALSE, {}),
     Dependencies(FALSE, {"camera_2"}, FALSE, {})}

\* What a run reads of the configuration: the fields it does not read are
\* those of BlankConfig.  A run is given the view of the configuration that
\* its path through the code reads, so that configurations that differ in
\* unread fields only are one input.
BlankConfig == Config(TRUE, 0, FALSE, "none", "none", "all", "live")

\* _executeUntriggerAction reads actions.untrigger, and the gate the
\* interaction mode when there is an untrigger action.
UntriggerView(cfg) ==
    IF ~cfg.present THEN NullConfig
    ELSE IF cfg.untrigger = "none" THEN BlankConfig
    ELSE [BlankConfig EXCEPT !.untrigger = cfg.untrigger,
                             !.interaction_mode = cfg.interaction_mode]

\* _startUntrigger reads untrigger_seconds, and calls _untriggerAction when
\* it is not positive.
EndView(cfg) ==
    IF ~cfg.present THEN NullConfig
    ELSE IF cfg.untrigger_seconds > 0
         THEN [BlankConfig EXCEPT !.untrigger_seconds = cfg.untrigger_seconds]
         ELSE UntriggerView(cfg)

\* _triggerAction reads actions.trigger, the default view for a high-fidelity
\* event without media whose action is default, and the gate the interaction
\* mode unless the event is suppressed.
TriggerView(ev, cfg) ==
    LET noMedia == ev.fidelity = "high" /\ ~ev.snapshot /\ ~ev.clip
        toLive == \/ cfg.trigger = "live"
                  \/ (cfg.trigger = "default" /\ cfg.default = "live")
    IN  IF ~cfg.present THEN NullConfig
        ELSE [BlankConfig EXCEPT
                !.trigger = cfg.trigger,
                !.default = IF noMedia /\ cfg.trigger = "default"
                            THEN cfg.default ELSE @,
                !.interaction_mode = IF noMedia /\ ~toLive
                                     THEN @ ELSE cfg.interaction_mode]

\* handleCameraEvent reads filter_selected_camera of a new or update event.
FilterView(cfg) ==
    IF ~cfg.present THEN NullConfig
    ELSE [BlankConfig EXCEPT !.filter_selected_camera = cfg.filter_selected_camera]

\* handleCameraEvent and the _triggerAction it calls in the same run.
NewView(ev, cfg) ==
    IF ~cfg.present THEN NullConfig
    ELSE [TriggerView(ev, cfg) EXCEPT
            !.filter_selected_camera = cfg.filter_selected_camera]

NoDependencies == Dependencies(FALSE, {}, FALSE, {})

\* --------------------------------------------------------------- variables

VARIABLES
    states,         \* _states: camera ID -> CameraTriggerState
    timers,         \* the running Timer objects: timer -> camera of its callback
    untriggering,   \* suspended _untriggerAction calls
    triggering,     \* suspended _triggerAction calls, per event camera
    throttleTimer,  \* whether the throttle window of _throttledTriggerAction is open
    throttleArgs,   \* the event the throttle holds for its trailing call
    throttleCooling,\* a trailing call was made less than a window after its event
    now,            \* the clock read by new Date()
    last,           \* what the last run did (history, read by no action)
    dispatched,     \* per camera, the calls of the view manager made since
                    \* the camera last became triggered (trigger actions)
                    \* and untriggered (untrigger actions) (history)
    destroyed,      \* the card has discarded the manager
    scan,           \* the call of handleInitialCameraTriggers: its locals and
                    \* where it is suspended
    windowDispatched, \* the trigger actions dispatched since the throttle
                    \* window last opened (history)
    env,            \* the configuration and the interaction state, where a
                    \* specification keeps them as state
    enqueued,       \* env as it was when a grace timer was last started
                    \* and when the throttle last took an event to hold
                    \* (history)
    camera,         \* a Camera object of the camera manager: its
                    \* configuration, capabilities and subscriptions
    emitted,        \* what the last run of the camera passed to its
                    \* _eventCallback, and the Frigate events forwarded and
                    \* not yet ended (history)
    acceptedEvents  \* per camera and source, the new and update events
                    \* accepted since the last end event of the source, and
                    \* how many there were when the last end event came
                    \* (history)

\* The variables that only some specifications use.
aux == <<destroyed, scan, dispatched, windowDispatched, env, enqueued,
         camera, emitted, acceptedEvents>>

vars == <<states, timers, untriggering, triggering,
          throttleTimer, throttleArgs, throttleCooling, now, last,
          destroyed, scan, dispatched, windowDispatched, env, enqueued,
          camera, emitted, acceptedEvents>>


\* ------------------------------------------------------- the Map _states

\* new CameraTriggerState values.
CameraTriggerState(lastTriggerTime, sources, untriggerDelayTimer) ==
    [lastTriggerTime |-> lastTriggerTime,
     sources |-> sources,
     untriggerDelayTimer |-> untriggerDelayTimer]

\* Map.set.
MapSet(st, cameraID, state) ==
    [c \in DOMAIN st \cup {cameraID} |-> IF c = cameraID THEN state ELSE st[c]]

MapDeleteAll(st, cameraID) ==
    [c \in {} |-> st[c]]

\* Map.delete.
MapDeleteKept(st, cameraID) ==
    st

MapDelete(st, cameraID) ==
    [c \in DOMAIN st \ {cameraID} |-> st[c]]

\* ------------------------------------------------------------ derived views

isStateTriggeredNoTimer(state) ==
    state.sources # {}

\* _isStateTriggered: !!(state.sources.size || state.untriggerDelayTimer)
isStateTriggered(state) ==
    state.sources # {} \/ state.untriggerDelayTimer # NoTimer

getTriggeredCameraIDs(st) ==
    {c \in DOMAIN st : isStateTriggered(st[c])}

isTriggered(st) ==
    \E c \in DOMAIN st : isStateTriggered(st[c])

getMostRecentlyTriggeredCameraIDOfAll(st) ==
    IF DOMAIN st = {} THEN {NoCamera}
    ELSE {c \in DOMAIN st :
            \A d \in DOMAIN st : st[d].lastTriggerTime <= st[c].lastTriggerTime}

\* getMostRecentlyTriggeredCameraID: maxBy over the triggered entries gives
\* the first entry, in the iteration order of the Map, with the greatest
\* lastTriggerTime, and null (NoCamera) when there is none.  The model does
\* not keep the iteration order: every entry with the greatest time is a
\* result.
getMostRecentlyTriggeredCameraID(st) ==
    LET entries == {c \in DOMAIN st : isStateTriggered(st[c])}
    IN  IF entries = {} THEN {NoCamera}
        ELSE {c \in entries :
                \A d \in entries : st[d].lastTriggerTime <= st[c].lastTriggerTime}

\* The value _setConditionStateIfNecessary gives to the condition state
\* manager: triggered is the set of triggered cameras, or undefined
\* (defined = FALSE) when the set is empty.
ConditionState(st) ==
    LET triggeredCameraIDs == getTriggeredCameraIDs(st)
    IN  [defined |-> triggeredCameraIDs # {}, ids |-> triggeredCameraIDs]

Undefined == [defined |-> FALSE, ids |-> {}]

\* -------------------------------------------------------------------- Timer

\* new Timer(): an object that is none of those running or held by a state.
FreeTimers(st, tm) ==
    TimerIDs \ (DOMAIN tm \cup {st[c].untriggerDelayTimer : c \in DOMAIN st})

NewTimer(st, tm) ==
    CHOOSE t \in FreeTimers(st, tm) : \A u \in FreeTimers(st, tm) : t <= u

TimerStartNotRunning(tm, timer, cameraID) ==
    tm

\* Timer.start: the timer runs until it is stopped or fires.
TimerStart(tm, timer, cameraID) ==
    [t \in DOMAIN tm \cup {timer} |-> IF t = timer THEN cameraID ELSE tm[t]]

\* Timer.stop: a pending invocation is cancelled; a no-op otherwise.
TimerStop(tm, timer) ==
    [t \in DOMAIN tm \ {timer} |-> tm[t]]

\* state?.untriggerDelayTimer
TimerOf(st, cameraID) ==
    IF cameraID \in DOMAIN st THEN st[cameraID].untriggerDelayTimer ELSE NoTimer

StatesAfterDeleteTimerKept(st, cameraID) ==
    st

\* _deleteUntriggerDelayTimer: the timer of the camera's state, if any, is
\* stopped and the field deleted.
StatesAfterDeleteTimer(st, cameraID) ==
    IF TimerOf(st, cameraID) # NoTimer
    THEN [st EXCEPT ![cameraID].untriggerDelayTimer = NoTimer]
    ELSE st

TimersAfterDeleteTimerNotStopped(st, tm, cameraID) ==
    tm

TimersAfterDeleteTimer(st, tm, cameraID) ==
    IF TimerOf(st, cameraID) # NoTimer
    THEN TimerStop(tm, TimerOf(st, cameraID))
    ELSE tm

\* --------------------------------------------------------------- Action Gate

hasAllowableIgnoringInteraction(cfg, hasInteraction) ==
    /\ cfg.present
    /\ cfg.interaction_mode \in {"all", "active", "inactive"}

\* _hasAllowableInteractionStateForAction
hasAllowableInteractionStateForAction(cfg, hasInteraction) ==
    /\ cfg.present
    /\ \/ cfg.interaction_mode = "all"
       \/ (cfg.interaction_mode = "active" /\ hasInteraction)
       \/ (cfg.interaction_mode = "inactive" /\ ~hasInteraction)

\* ------------------------------------------------------- Dependency Filter

\* getAllDependentCameras of the camera store: the selected camera, the
\* cameras that declare it as a dependency, every camera when the selected
\* camera declares all cameras, and the cameras that declare all cameras.
getAllDependentCameras(deps, selectedCameraID) ==
    {selectedCameraID} \cup
    {c \in Cameras :
        \/ selectedCameraID \in deps[c].cameras
        \/ (selectedCameraID \in Cameras /\ deps[selectedCameraID].all_cameras)
        \/ deps[c].all_cameras}

\* ----------------------------------------------------------------- history

\* The record of a run: the handler and its event, the inputs it read, what
\* it returned and what it called; for a continuation, what it had awaited
\* (a call of the view manager, or only the return of an async method).
NoRun ==
    [op |-> "init", ev |-> NoEvent, cam |-> NoCamera, skipAction |-> FALSE,
     ret |-> "none",
     cfgRead |-> FALSE, cfg |-> NullConfig, interaction |-> FALSE,
     selected |-> NoCamera, dependents |-> {},
     invoked |-> NoEvent, call |-> "none", callCamera |-> NoCamera,
     started |-> NoTimer, stopped |-> NoTimer, fired |-> NoTimer,
     removed |-> FALSE,
     sink |-> FALSE, sunk |-> Undefined, updated |-> FALSE,
     awaited |-> "none"]


\* ------------------------------------------------------ suspended calls

\* A suspended _untriggerAction: its camera, and whether it awaits a call of
\* the view manager (dispatched) or only the return of
\* _executeUntriggerAction.
UntriggerKeys == [cam : Cameras, dispatched : BOOLEAN]

RECURSIVE SumOver(_, _)
SumOver(f, keys) ==
    IF keys = {} THEN 0
    ELSE LET k == CHOOSE x \in keys : TRUE
         IN  f[k] + SumOver(f, keys \ {k})

InFlight(f) == SumOver(f, DOMAIN f)

Suspend(f, k) == [f EXCEPT ![k] = @ + 1]
Resume(f, k) == [f EXCEPT ![k] = @ - 1]

\* -------------------------------------------------------------------- Init

\* The locals of handleInitialCameraTriggers: hass as read at the start, the
\* triggered entities still to handle, triggered and startupActionEvent; and
\* the events that handleCameraEvent accepted and the events passed to
\* _throttledTriggerAction (history).
NoScan ==
    [phase |-> "idle", hass |-> [e \in Sources |-> "none"], todo |-> <<>>,
     triggered |-> FALSE, startupActionEvent |-> NoEvent,
     accepted |-> <<>>, throttled |-> <<>>]

\* this._capabilities of a camera: null until initialize() sets it.
Capabilities(present, has) == [present |-> present, has |-> has]

NullCapabilities == Capabilities(FALSE, {})

\* A subscription of a watcher: whether the callback is registered, and for
\* which entities.
Subscription(active, entities) == [active |-> active, entities |-> entities]

NoSubscription == Subscription(FALSE, {})

\* The camera before its constructor has run.
NoCameraObject ==
    [constructed |-> FALSE, engine |-> "none", id |-> NoCamera,
     entities |-> {}, eventCallback |-> FALSE,
     capabilities |-> NullCapabilities, stateSubscription |-> NoSubscription,
     cameraName |-> FALSE, zones |-> {}, labels |-> {}, events |-> {},
     eventSubscription |-> FALSE]

\* HassStateDifference when there is none.
NoDifference == [entityID |-> "no_source", oldState |-> "none", newState |-> "none"]

\* FrigateEventChange when there is none.
NoChange ==
    [type |-> "none", id |-> "no_source",
     before |-> [has_snapshot |-> FALSE, frame_time |-> 0, has_clip |-> FALSE],
     after |-> [has_snapshot |-> FALSE, frame_time |-> 0, has_clip |-> FALSE,
                current_zones |-> {}, label |-> "none"]]

\* No run of the camera yet.
NothingEmitted ==
    [op |-> "none", difference |-> NoDifference, change |-> NoChange,
     events |-> <<>>, threw |-> FALSE, open |-> {}]

\* What the managers of the card return: getConfig() and hasInteraction().
Environment(cfg, hasInteraction) ==
    [cfg |-> cfg, interaction |-> hasInteraction]

NoEnvironment == [cfg |-> NullConfig, interaction |-> FALSE, none |-> TRUE]

Init ==
    /\ states = <<>>
    /\ timers = <<>>
    /\ untriggering = [k \in UntriggerKeys |-> 0]
    /\ triggering = [c \in Cameras |-> 0]
    /\ throttleTimer = FALSE
    /\ throttleArgs = NoEvent
    /\ throttleCooling = FALSE
    /\ now = 0
    /\ last = NoRun
    /\ dispatched = [c \in Cameras |-> [trigger |-> 0, untrigger |-> 0]]
    /\ destroyed = FALSE
    /\ scan = NoScan
    /\ windowDispatched = 0
    /\ env = Environment(NullConfig, FALSE)
    /\ enqueued = [untrigger |-> NoEnvironment, trigger |-> NoEnvironment]
    /\ camera = NoCameraObject
    /\ emitted = NothingEmitted
    /\ acceptedEvents = [c \in Cameras |-> [s \in Sources |-> [open |-> 0, closed |-> 0]]]

\* ----------------------------------------------------------- untrigger path

executeUntriggerActionUngated(cfg, hasInteraction) ==
    IF ~cfg.present \/ cfg.untrigger = "none" THEN "none"
    ELSE "untrigger_default"

executeUntriggerActionOfLastCamera(cfg, hasInteraction) ==
    IF ~cfg.present \/ cfg.untrigger = "none" THEN "none"
    ELSE IF Cardinality(getTriggeredCameraIDs(states)) > 1 THEN "none"
    ELSE IF hasAllowableInteractionStateForAction(cfg, hasInteraction)
         THEN "untrigger_default"
         ELSE "none"

\* _executeUntriggerAction up to its await: the call of the view manager it
\* makes, if any.
executeUntriggerAction(cfg, hasInteraction) ==
    IF ~cfg.present \/ cfg.untrigger = "none" THEN "none"
    ELSE IF hasAllowableInteractionStateForAction(cfg, hasInteraction)
         THEN "untrigger_default"
         ELSE "none"

\* The interaction state is read only by the gate.
InteractionInputs(cfg) ==
    IF cfg.present /\ cfg.untrigger # "none" THEN BOOLEAN ELSE {FALSE}

\* The running timer that _deleteUntriggerDelayTimer stops, if any.
StoppedTimer(st, tm, cameraID) ==
    IF TimerOf(st, cameraID) \in DOMAIN tm THEN TimerOf(st, cameraID) ELSE NoTimer

\* _untriggerAction up to its await, on the store st with running timers tm:
\* the timer of the camera is deleted and the untrigger action executed; the
\* method then waits for it.
UntriggerActionStart(st, tm, cameraID, cfg, hasInteraction, run) ==
    LET call == executeUntriggerAction(cfg, hasInteraction)
    IN  /\ InFlight(untriggering) < MaxInFlight
        /\ states' = StatesAfterDeleteTimer(st, cameraID)
        /\ timers' = TimersAfterDeleteTimer(st, tm, cameraID)
        /\ untriggering' =
              Suspend(untriggering, [cam |-> cameraID, dispatched |-> call # "none"])
        /\ last' = [run EXCEPT !.cfgRead = TRUE, !.cfg = cfg,
                               !.interaction = hasInteraction,
                               !.call = call,
                               !.stopped = StoppedTimer(st, tm, cameraID)]

UntriggerActionCompletesAfterTriggers(k) ==
    /\ InFlight(triggering) = 0
    /\ untriggering[k] > 0
    /\ untriggering' = Resume(untriggering, k)
    /\ states' = MapDelete(states, k.cam)
    /\ last' = [NoRun EXCEPT !.op = "untriggered", !.cam = k.cam,
                             !.sink = TRUE, !.sunk = ConditionState(states'),
                             !.updated = TRUE,
                             !.awaited = IF k.dispatched THEN "call" ELSE "return"]
    /\ UNCHANGED <<timers, triggering, throttleTimer, throttleArgs,
                   throttleCooling, now>>

\* _untriggerAction after its await: the state of the camera is deleted, the
\* condition state set and the card element updated.
UntriggerActionCompletes(k) ==
    /\ untriggering[k] > 0
    /\ untriggering' = Resume(untriggering, k)
    /\ states' = MapDelete(states, k.cam)
    /\ last' = [NoRun EXCEPT !.op = "untriggered", !.cam = k.cam,
                             !.sink = TRUE, !.sunk = ConditionState(states'),
                             !.updated = TRUE,
                             !.awaited = IF k.dispatched THEN "call" ELSE "return"]
    /\ UNCHANGED <<timers, triggering, throttleTimer, throttleArgs,
                   throttleCooling, now>>

\* The awaited call of the view manager rejects: _untriggerAction ends with
\* the error and runs no further.
UntriggerActionFails(k) ==
    /\ k.dispatched
    /\ untriggering[k] > 0
    /\ untriggering' = Resume(untriggering, k)
    /\ last' = [NoRun EXCEPT !.op = "untrigger_failed", !.cam = k.cam]
    /\ UNCHANGED <<states, timers, triggering,
                   throttleTimer, throttleArgs, throttleCooling, now>>

\* The callback of a running untrigger timer: _untriggerAction(cameraID).
TimerFires(timer, Cfgs) ==
    /\ timer \in DOMAIN timers
    /\ \E cfg \in {UntriggerView(c) : c \in Cfgs} :
       \E hasInteraction \in InteractionInputs(cfg) :
          UntriggerActionStart(states, TimerStop(timers, timer), timers[timer],
                               cfg, hasInteraction,
                               [NoRun EXCEPT !.op = "timer", !.cam = timers[timer],
                                             !.fired = timer])
    /\ UNCHANGED <<triggering, throttleTimer, throttleArgs, throttleCooling, now>>

untriggerSecondsDefaultTen(cfg) ==
    IF cfg.present THEN cfg.untrigger_seconds ELSE 10

\* config?.view?.triggers.untrigger_seconds ?? 0
untriggerSeconds(cfg) ==
    IF cfg.present THEN cfg.untrigger_seconds ELSE 0

\* _startUntrigger for a camera that has a state, on the store st: with a
\* grace period a new Timer is started in place of the camera's timer,
\* without one _untriggerAction is called at once.
StartUntrigger(st, cameraID, cfg, run) ==
        IF untriggerSeconds(cfg) > 0
        THEN /\ FreeTimers(st, timers) # {}
             /\ states' = [StatesAfterDeleteTimer(st, cameraID)
                              EXCEPT ![cameraID].untriggerDelayTimer =
                                         NewTimer(st, timers)]
             /\ timers' = TimerStart(TimersAfterDeleteTimer(st, timers, cameraID),
                                     NewTimer(st, timers), cameraID)
             /\ last' = [run EXCEPT !.cfgRead = TRUE, !.cfg = cfg,
                                    !.started = NewTimer(st, timers),
                                    !.stopped = StoppedTimer(st, timers, cameraID)]
             /\ UNCHANGED untriggering
        ELSE \E hasInteraction \in InteractionInputs(cfg) :
                UntriggerActionStart(st, timers, cameraID, cfg, hasInteraction, run)

StatesAfterSourceDeleteCounted(st, ev) ==
    IF ev.cameraID \in DOMAIN st /\ acceptedEvents[ev.cameraID][ev.id].open <= 1
    THEN [st EXCEPT ![ev.cameraID].sources = @ \ {ev.id}]
    ELSE st

StatesAfterSourceDeleteKept(st, ev) ==
    st

StatesAfterSourceDeleteCreating(st, ev) ==
    IF ev.cameraID \in DOMAIN st
    THEN [st EXCEPT ![ev.cameraID].sources = @ \ {ev.id}]
    ELSE MapSet(st, ev.cameraID, CameraTriggerState(0, {}, NoTimer))

\* sources.delete(ev.id) on the state of the event's camera, if it has one.
StatesAfterSourceDelete(st, ev) ==
    IF ev.cameraID \in DOMAIN st
    THEN [st EXCEPT ![ev.cameraID].sources = @ \ {ev.id}]
    ELSE st

\* handleCameraEvent for an end event; the configuration is read only by
\* _startUntrigger, for a camera that has a state.
HandleEndEvent(ev, Cfgs) ==
    LET st1 == StatesAfterSourceDelete(states, ev)
        run == [NoRun EXCEPT !.op = "end", !.ev = ev, !.cam = ev.cameraID,
                             !.ret = "true",
                             !.removed = (ev.cameraID \in DOMAIN states
                                          /\ ev.id \in states[ev.cameraID].sources)]
    IN  /\ ev.type = "end"
        /\ UNCHANGED <<triggering, throttleTimer, throttleArgs, throttleCooling, now>>
        /\ IF ev.cameraID \in DOMAIN st1 /\ st1[ev.cameraID].sources # {}
           THEN \* Other sources are active.
                /\ states' = st1
                /\ last' = run
                /\ UNCHANGED <<timers, untriggering>>
           ELSE IF ev.cameraID \notin DOMAIN st1
           THEN \* _startUntrigger returns: there is no state.
                /\ last' = run
                /\ UNCHANGED <<states, timers, untriggering>>
           ELSE \E cfg \in {EndView(c) : c \in Cfgs} :
                   StartUntrigger(st1, ev.cameraID, cfg, run)

\* ------------------------------------------------------------- trigger path

TriggerSuppressedNever(ev, cfg) ==
    FALSE

\* The high-fidelity rule of _triggerAction: an event that carries no new
\* media takes no action, unless the action is to change to live.
TriggerSuppressed(ev, cfg) ==
    LET triggerAction == IF cfg.present THEN cfg.trigger ELSE "none"
        defaultView == IF cfg.present THEN cfg.default ELSE "none"
    IN  /\ ev.fidelity = "high"
        /\ ~ev.snapshot
        /\ ~ev.clip
        /\ ~(triggerAction = "live"
             \/ (triggerAction = "default" /\ defaultView = "live"))

TriggerCallSnapshotFirst(ev, cfg, hasInteraction) ==
    LET triggerAction == IF cfg.present THEN cfg.trigger ELSE "none"
    IN  IF TriggerSuppressed(ev, cfg) THEN "none"
        ELSE IF ~hasAllowableInteractionStateForAction(cfg, hasInteraction) THEN "none"
        ELSE IF triggerAction = "update" THEN "refresh"
        ELSE IF triggerAction = "live" THEN "live"
        ELSE IF triggerAction = "default" THEN "default"
        ELSE IF ev.fidelity = "high" /\ triggerAction = "media"
             THEN (IF ev.snapshot THEN "snapshot" ELSE "clip")
        ELSE "none"

\* The call of the view manager that _triggerAction makes, if any.
TriggerCall(ev, cfg, hasInteraction) ==
    LET triggerAction == IF cfg.present THEN cfg.trigger ELSE "none"
    IN  IF TriggerSuppressed(ev, cfg) THEN "none"
        ELSE IF ~hasAllowableInteractionStateForAction(cfg, hasInteraction) THEN "none"
        ELSE IF triggerAction = "update" THEN "refresh"
        ELSE IF triggerAction = "live" THEN "live"
        ELSE IF triggerAction = "default" THEN "default"
        ELSE IF ev.fidelity = "high" /\ triggerAction = "media"
             THEN (IF ev.clip THEN "clip" ELSE "snapshot")
        ELSE "none"

\* The interaction state is read by _triggerAction unless the event is
\* suppressed or there is no configuration.
TriggerInteractionInputs(ev, cfg) ==
    IF cfg.present /\ ~TriggerSuppressed(ev, cfg) THEN BOOLEAN ELSE {FALSE}

\* _triggerAction up to its await or its end: with a call of the view
\* manager the method waits for it and updates the card element afterwards,
\* without one it updates the card element at once, and a suppressed event
\* returns before the update.
TriggerActionStart(ev, cfg, hasInteraction, run) ==
    LET call == TriggerCall(ev, cfg, hasInteraction)
    IN  /\ call # "none" => triggering[ev.cameraID] < MaxTriggerInFlight
        /\ triggering' = IF call # "none" THEN Suspend(triggering, ev.cameraID)
                         ELSE triggering
        /\ last' = [run EXCEPT !.cfgRead = TRUE, !.cfg = cfg,
                               !.interaction = hasInteraction,
                               !.invoked = ev,
                               !.call = call,
                               !.callCamera = IF call \in {"none", "refresh"}
                                              THEN NoCamera ELSE ev.cameraID,
                               !.updated = (call = "none"
                                            /\ ~TriggerSuppressed(ev, cfg))]

\* _triggerAction after its await: the card element is updated.
TriggerActionCompletes(cameraID) ==
    /\ triggering[cameraID] > 0
    /\ triggering' = Resume(triggering, cameraID)
    /\ last' = [NoRun EXCEPT !.op = "triggered", !.cam = cameraID, !.updated = TRUE]
    /\ UNCHANGED <<states, timers, untriggering,
                   throttleTimer, throttleArgs, throttleCooling, now>>

\* The awaited call of the view manager rejects.
TriggerActionFails(cameraID) ==
    /\ triggering[cameraID] > 0
    /\ triggering' = Resume(triggering, cameraID)
    /\ last' = [NoRun EXCEPT !.op = "trigger_failed", !.cam = cameraID]
    /\ UNCHANGED <<states, timers, untriggering,
                   throttleTimer, throttleArgs, throttleCooling, now>>


ThrottledTriggerActionAlsoHeld(ev, cfg, run) ==
    /\ throttleTimer' = TRUE
    /\ throttleArgs' = ev
    /\ throttleCooling' = FALSE
    /\ \E hasInteraction \in TriggerInteractionInputs(ev, cfg) :
          TriggerActionStart(ev, cfg, hasInteraction, run)

\* _throttledTriggerAction(ev): lodash throttle with a window of one second,
\* leading and trailing.  Outside a window the call runs _triggerAction at
\* once and opens a window; inside a window the event replaces the one held
\* for the trailing call.  A call less than a window after the event of a
\* trailing call opens a window and is held.
ThrottledTriggerAction(ev, cfg, run) ==
    IF throttleTimer \/ throttleCooling
    THEN /\ throttleTimer' = TRUE
         /\ throttleArgs' = ev
         /\ throttleCooling' = FALSE
         /\ last' = run
         /\ UNCHANGED triggering
    ELSE /\ throttleTimer' = TRUE
         /\ throttleArgs' = NoEvent
         /\ throttleCooling' = FALSE
         /\ \E hasInteraction \in TriggerInteractionInputs(ev, cfg) :
               TriggerActionStart(ev, cfg, hasInteraction, run)

\* The end of the throttle window: the trailing call of _triggerAction, with
\* the event held, if any.
ThrottleTimerFires(Cfgs) ==
    /\ throttleTimer
    /\ throttleTimer' = FALSE
    /\ throttleArgs' = NoEvent
    /\ throttleCooling' = (throttleArgs # NoEvent)
    /\ IF throttleArgs # NoEvent
       THEN \E cfg \in {TriggerView(throttleArgs, c) : c \in Cfgs} :
            \E hasInteraction \in TriggerInteractionInputs(throttleArgs, cfg) :
               TriggerActionStart(throttleArgs, cfg, hasInteraction,
                                  [NoRun EXCEPT !.op = "throttle",
                                                !.cam = throttleArgs.cameraID])
       ELSE /\ last' = [NoRun EXCEPT !.op = "time"]
            /\ UNCHANGED triggering
    /\ UNCHANGED <<states, timers, untriggering, now>>

\* A window has passed since the event of the last trailing call.
ThrottleCoolingEnds ==
    /\ throttleCooling
    /\ throttleCooling' = FALSE
    /\ last' = [NoRun EXCEPT !.op = "time"]
    /\ UNCHANGED <<states, timers, untriggering, triggering,
                   throttleTimer, throttleArgs, now>>

\* --------------------------------------------------- handleCameraEvent (new)

\* The state of the event's camera is created or its time refreshed, and the
\* source added.
StatesAfterSourceAdd(st, ev, time) ==
    MapSet(st, ev.cameraID,
           IF ev.cameraID \in DOMAIN st
           THEN [st[ev.cameraID] EXCEPT !.lastTriggerTime = time,
                                        !.sources = @ \cup {ev.id}]
           ELSE CameraTriggerState(time, {ev.id}, NoTimer))

AcceptsEventWithoutView(ev, cfg, selectedCameraID, dependentCameraIDs) ==
    /\ cfg.present
    /\ ~(cfg.filter_selected_camera /\ ev.cameraID \notin dependentCameraIDs)

AcceptsEventAlwaysFiltered(ev, cfg, selectedCameraID, dependentCameraIDs) ==
    /\ cfg.present
    /\ selectedCameraID # NoCamera
    /\ ev.cameraID \in dependentCameraIDs

\* Whether handleCameraEvent accepts a new or update event.
AcceptsEvent(ev, cfg, selectedCameraID, dependentCameraIDs) ==
    /\ cfg.present
    /\ selectedCameraID # NoCamera
    /\ ~(cfg.filter_selected_camera /\ ev.cameraID \notin dependentCameraIDs)

\* handleCameraEvent for a new or update event.
HandleNewEvent(ev, skipAction, Cfgs, Selected, Deps) ==
    /\ ev.type \in {"new", "update"}
    /\ UNCHANGED <<untriggering, now>>
    /\ \E cfg \in {IF skipAction THEN FilterView(c) ELSE NewView(ev, c) : c \in Cfgs} :
       \E selectedCameraID \in Selected \cup {NoCamera} :
       \E deps \in (IF cfg.filter_selected_camera /\ selectedCameraID # NoCamera
                    THEN Deps ELSE {NoDependencies}) :
          LET dependentCameraIDs ==
                  IF selectedCameraID = NoCamera THEN {}
                  ELSE getAllDependentCameras(deps, selectedCameraID)
              st1 == StatesAfterSourceAdd(states, ev, now)
              run == [NoRun EXCEPT !.op = "new", !.ev = ev, !.cam = ev.cameraID,
                                   !.skipAction = skipAction,
                                   !.cfgRead = TRUE, !.cfg = cfg,
                                   !.selected = selectedCameraID,
                                   !.dependents = dependentCameraIDs]
          IN  IF ~AcceptsEvent(ev, cfg, selectedCameraID, dependentCameraIDs)
              THEN /\ last' = [run EXCEPT !.ret = "false",
                                          !.cfg = FilterView(cfg)]
                   /\ UNCHANGED <<states, timers, triggering,
                                  throttleTimer, throttleArgs, throttleCooling>>
              ELSE /\ states' = StatesAfterDeleteTimer(st1, ev.cameraID)
                   /\ timers' = TimersAfterDeleteTimer(st1, timers, ev.cameraID)
                   /\ LET accepted ==
                              [run EXCEPT !.ret = "true", !.sink = TRUE,
                                          !.sunk = ConditionState(states'),
                                          !.stopped = StoppedTimer(st1, timers,
                                                                   ev.cameraID)]
                      IN  IF skipAction
                          THEN /\ last' = accepted
                               /\ UNCHANGED <<triggering, throttleTimer, throttleArgs,
                                              throttleCooling>>
                          ELSE ThrottledTriggerAction(ev, cfg, accepted)

\* ------------------------------------------- handleInitialCameraTriggers

\* The states of the trigger entities in hass.states; "none" is an entity
\* without a state.
HassStates == {"on", "off", "none"}

isTriggeredState(state) ==
    state \in {"on", "open"}

\* getStore().getCameras() in its order, and triggers.entities of each
\* camera configuration.
CameraOrder == <<"camera_1", "camera_2">>

TriggersEntities ==
    [c \in Cameras |->
        IF c = "camera_1" THEN <<"entity_1", "entity_2">> ELSE <<"entity_1">>]

\* The pairs of camera and entity in the order of the two loops.
RECURSIVE ScanOrderFrom(_)
ScanOrderFrom(cameras) ==
    IF cameras = <<>> THEN <<>>
    ELSE LET c == Head(cameras)
         IN  [i \in 1..Len(TriggersEntities[c]) |-> <<c, TriggersEntities[c][i]>>]
             \o ScanOrderFrom(Tail(cameras))

ScanOrder == ScanOrderFrom(CameraOrder)

\* The pairs whose entity is in a triggered state.
TriggeredPairs(hass) ==
    SelectSeq(ScanOrder, LAMBDA p : isTriggeredState(hass[p[2]]))

\* The options of the handleCameraEvent calls of the scan.
ScanSkipAction == TRUE

TriggeredAfterOnlyAccepted(triggered, accepted) ==
    triggered \/ accepted

\* triggered = true: set for every entity in a triggered state, before its
\* event is handled.
TriggeredAfter(triggered, accepted) ==
    TRUE

StartupActionEventLast(startupActionEvent, ev, accepted) ==
    IF accepted THEN ev ELSE startupActionEvent

\* startupActionEvent ??= event, for an accepted event.
StartupActionEvent(startupActionEvent, ev, accepted) ==
    IF accepted /\ startupActionEvent = NoEvent THEN ev ELSE startupActionEvent

\* The end of the scan: with an accepted event, _throttledTriggerAction is
\* called with the first one and awaited; without, the method returns.
ScanFinish(sc, Cfgs) ==
    LET ev == sc.startupActionEvent
    IN  IF ev # NoEvent
        THEN /\ \E cfg \in {TriggerView(ev, c) : c \in Cfgs} :
                   ThrottledTriggerAction(ev, cfg,
                       [NoRun EXCEPT !.op = "initial", !.ev = ev,
                                     !.cam = ev.cameraID])
             /\ scan' = [sc EXCEPT !.phase = "awaiting",
                                   !.throttled = Append(@, ev)]
             /\ UNCHANGED <<states, timers, untriggering, now>>
        ELSE /\ last' = [NoRun EXCEPT !.op = "initial_return",
                                      !.ret = IF sc.triggered THEN "true"
                                              ELSE "false"]
             /\ scan' = [sc EXCEPT !.phase = "returned"]
             /\ UNCHANGED <<states, timers, untriggering, triggering,
                            throttleTimer, throttleArgs, throttleCooling, now>>

\* The loops up to the next await: the next entity in a triggered state is
\* handled by handleCameraEvent, whose result the method awaits.
ScanStep(sc, Cfgs, Selected, Deps) ==
    IF sc.todo = <<>>
    THEN ScanFinish(sc, Cfgs)
    ELSE LET p == Head(sc.todo)
             ev == CameraEvent(p[1], p[2], "new", "low", FALSE, FALSE)
         IN  /\ HandleNewEvent(ev, ScanSkipAction, Cfgs, Selected, Deps)
             /\ scan' =
                   [sc EXCEPT
                      !.phase = "scanning",
                      !.todo = Tail(@),
                      !.triggered = TriggeredAfter(@, last'.ret = "true"),
                      !.startupActionEvent =
                          StartupActionEvent(@, ev, last'.ret = "true"),
                      !.accepted = IF last'.ret = "true" THEN Append(@, ev)
                                   ELSE @]

\* handleInitialCameraTriggers() up to its first await or its return.
HandleInitialCameraTriggers(Cfgs, Selected, Deps) ==
    /\ scan.phase \in {"idle", "returned", "rejected"}
    /\ \E hass \in [Sources -> HassStates] :
          ScanStep([NoScan EXCEPT !.hass = hass, !.todo = TriggeredPairs(hass)],
                   Cfgs, Selected, Deps)

\* The continuation after an awaited handleCameraEvent.
InitialCameraTriggersResume(Cfgs, Selected, Deps) ==
    /\ scan.phase = "scanning"
    /\ ScanStep(scan, Cfgs, Selected, Deps)

\* The continuation after the awaited _throttledTriggerAction: return
\* triggered.
InitialCameraTriggersReturn ==
    /\ scan.phase = "awaiting"
    /\ scan' = [scan EXCEPT !.phase = "returned"]
    /\ last' = [NoRun EXCEPT !.op = "initial_return",
                             !.ret = IF scan.triggered THEN "true" ELSE "false"]
    /\ UNCHANGED <<states, timers, untriggering, triggering,
                   throttleTimer, throttleArgs, throttleCooling, now>>

\* The awaited promise of _throttledTriggerAction rejects, and the method
\* with it.
InitialCameraTriggersRejects ==
    /\ scan.phase = "awaiting"
    /\ scan' = [scan EXCEPT !.phase = "rejected"]
    /\ last' = [NoRun EXCEPT !.op = "initial_rejected"]
    /\ UNCHANGED <<states, timers, untriggering, triggering,
                   throttleTimer, throttleArgs, throttleCooling, now>>

\* ------------------------------------------------------------------- Camera

\* The variables of the triggers manager, which no run of a camera touches.
manager == <<states, timers, untriggering, triggering, throttleTimer,
             throttleArgs, throttleCooling, now, last, destroyed, scan,
             dispatched, windowDispatched, env, enqueued, acceptedEvents>>

\* What a handler of the camera did: the events it passed to
\* _eventCallback, and whether it threw.
Emits(events) == [events |-> events, threw |-> FALSE]
Throws == [events |-> <<>>, threw |-> TRUE]

\* getID(): config.id, or CameraNoIDError.
HasID(cam) == cam.id # NoCamera

StateChangeTypeOfOldState(difference) ==
    IF isTriggeredState(difference.oldState) THEN "new" ELSE "end"

\* The type of the event of a trigger entity: the new state decides,
\* the old state is not read.
StateChangeType(difference) ==
    IF isTriggeredState(difference.newState) THEN "new" ELSE "end"

\* _stateChangeHandler: the optional call this._eventCallback?.(...) does
\* not evaluate its argument without a callback; with one, getID() throws
\* when the camera has no ID.
stateChangeHandler(cam, difference) ==
    IF ~cam.eventCallback THEN Emits(<<>>)
    ELSE IF ~HasID(cam) THEN Throws
    ELSE Emits(<<CameraEvent(cam.id, difference.entityID,
                             StateChangeType(difference),
                             "low", FALSE, FALSE)>>)

\* _subscribeBasedOnCapabilities: the subscription of _stateChangeHandler
\* at the state watcher afterwards.
subscribeBasedOnCapabilities(cam) ==
    IF cam.capabilities.present /\ "trigger" \in cam.capabilities.has
    THEN Subscription(TRUE, cam.entities)
    ELSE cam.stateSubscription

\* new Camera(config, engine, options): the configuration with or without
\* an ID, triggers.entities, and options.eventCallback or none.
CameraConstruct(engine, id, entities, eventCallback) ==
    /\ ~camera.constructed
    /\ camera' = [NoCameraObject EXCEPT
                      !.constructed = TRUE, !.engine = engine, !.id = id,
                      !.entities = entities, !.eventCallback = eventCallback]
    /\ emitted' = [NothingEmitted EXCEPT !.op = "construct"]
    /\ UNCHANGED manager

\* setID().
CameraSetID(id) ==
    /\ camera.constructed
    /\ camera.id # id
    /\ camera' = [camera EXCEPT !.id = id]
    /\ emitted' = [NothingEmitted EXCEPT !.op = "set_id", !.open = emitted.open]
    /\ UNCHANGED manager

\* Camera.initialize(): _initialize() of the base class does nothing, the
\* capabilities are those of the options, those the camera has or those
\* built from its raw capabilities, with or without 'trigger'; then
\* _subscribeBasedOnCapabilities().
CameraInitializeBase(cam, has) ==
    LET capable == [cam EXCEPT !.capabilities = Capabilities(TRUE, has)]
    IN  [capable EXCEPT !.stateSubscription = subscribeBasedOnCapabilities(capable)]

CameraInitialize(has) ==
    /\ camera.constructed
    /\ camera.engine = "generic"
    /\ camera' = CameraInitializeBase(camera, has)
    /\ emitted' = [NothingEmitted EXCEPT !.op = "initialize", !.open = emitted.open]
    /\ UNCHANGED manager

\* Camera.destroy(): the callbacks registered with _onDestroy() unsubscribe
\* the handlers.
CameraDestroy ==
    /\ camera.constructed
    /\ camera.stateSubscription.active \/ camera.eventSubscription
    /\ camera' = [camera EXCEPT !.stateSubscription = NoSubscription,
                                !.eventSubscription = FALSE]
    /\ emitted' = [NothingEmitted EXCEPT !.op = "destroy", !.open = emitted.open]
    /\ UNCHANGED manager

\* The differences of the state of an entity.
Differences ==
    {[entityID |-> e, oldState |-> o, newState |-> n] :
        e \in Sources, o \in HassStates, n \in HassStates \ {"none"}}

\* The state watcher sees the state of an entity change and calls the
\* callbacks subscribed for the entity.
StateChanges(difference) ==
    /\ difference.oldState # difference.newState
    /\ camera.constructed
    /\ IF /\ camera.stateSubscription.active
          /\ difference.entityID \in camera.stateSubscription.entities
       THEN LET done == stateChangeHandler(camera, difference)
            IN  emitted' = [NothingEmitted EXCEPT
                               !.op = "state_change",
                               !.difference = difference,
                               !.events = done.events,
                               !.threw = done.threw,
                               !.open = emitted.open]
       ELSE emitted' = [NothingEmitted EXCEPT
                           !.op = "not_subscribed",
                           !.difference = difference,
                           !.open = emitted.open]
    /\ UNCHANGED <<camera, manager>>

\* ------------------------------------------------------------ FrigateCamera

\* The IDs of Frigate events, the zones and the labels.
FrigateEventIDs == {"event_1"}
Zones == {"zone_1"}
Labels == {"person", "car"}
\* snapshot?.frame_time: 0 when there is no snapshot.
FrameTimes == {0, 1, 2}

\* FrigateEventChange: the type of the change, and the event before and
\* after it.  An event has a frame time when it has a snapshot, and keeps
\* the snapshot and the clip it has.
FrigateEventChanges ==
    {ev \in
        [type : {"new", "update", "end"}, id : FrigateEventIDs,
         before : [has_snapshot : BOOLEAN, frame_time : {0, 1},
                   has_clip : BOOLEAN],
         after : [has_snapshot : BOOLEAN, frame_time : FrameTimes,
                  has_clip : BOOLEAN, current_zones : SUBSET Zones,
                  label : Labels]] :
        /\ ev.before.has_snapshot <=> ev.before.frame_time # 0
        /\ ev.after.has_snapshot <=> ev.after.frame_time # 0
        /\ ev.before.has_snapshot => ev.after.has_snapshot
        /\ ev.before.has_clip => ev.after.has_clip}

snapshotChange(ev) ==
    \/ ~ev.before.has_snapshot /\ ev.after.has_snapshot
    \/ ev.before.frame_time # ev.after.frame_time

clipChangeOfAfter(ev) ==
    ev.after.has_clip

clipChange(ev) ==
    ~ev.before.has_clip /\ ev.after.has_clip

\* The zone and label filters of the camera configuration: an empty list
\* filters nothing.
MatchesZonesAndLabels(cam, ev) ==
    /\ cam.zones # {} => cam.zones \cap ev.after.current_zones # {}
    /\ cam.labels # {} => ev.after.label \in cam.labels

\* config.triggers.events against the change.
TriggersOn(cam, ev) ==
    \/ "events" \in cam.events
    \/ "snapshots" \in cam.events /\ snapshotChange(ev)
    \/ "clips" \in cam.events /\ clipChange(ev)

\* _frigateEventHandler: returns early without a camera ID, when the
\* filters do not match and when the configuration does not trigger on the
\* change; otherwise the optional call of _eventCallback.
frigateEventHandler(cam, ev) ==
    IF ~HasID(cam) THEN Emits(<<>>)
    ELSE IF ~MatchesZonesAndLabels(cam, ev) THEN Emits(<<>>)
    ELSE IF ~TriggersOn(cam, ev) THEN Emits(<<>>)
    ELSE IF ~cam.eventCallback THEN Emits(<<>>)
    ELSE Emits(<<CameraEvent(cam.id, ev.id, ev.type, "high",
                             clipChange(ev) /\ "clips" \in cam.events,
                             snapshotChange(ev) /\ "snapshots" \in cam.events)>>)

\* new FrigateCamera(config, engine, options): the configuration as
\* _initializeConfig() leaves it, with frigate.camera_name or without,
\* frigate.zones, frigate.labels and triggers.events.
FrigateCameraConstruct(id, eventCallback, cameraName, zones, labels, events) ==
    /\ ~camera.constructed
    /\ camera' = [NoCameraObject EXCEPT
                      !.constructed = TRUE, !.engine = "frigate", !.id = id,
                      !.eventCallback = eventCallback,
                      !.cameraName = cameraName, !.zones = zones,
                      !.labels = labels, !.events = events]
    /\ emitted' = [NothingEmitted EXCEPT !.op = "construct"]
    /\ UNCHANGED manager

\* _subscribeToEvents: no subscription without trigger events or without
\* a camera name.
subscribeToEvents(cam) ==
    IF cam.events = {} \/ ~cam.cameraName THEN cam.eventSubscription ELSE TRUE

\* FrigateCamera.initialize(): the initialization of the base class, and
\* with the trigger capability _subscribeToEvents().
FrigateCameraInitialize(has) ==
    /\ camera.constructed
    /\ camera.engine = "frigate"
    /\ LET base == CameraInitializeBase(camera, has)
       IN  camera' = [base EXCEPT
                         !.eventSubscription =
                             IF "trigger" \in base.capabilities.has
                             THEN subscribeToEvents(base) ELSE @]
    /\ emitted' = [NothingEmitted EXCEPT !.op = "initialize", !.open = emitted.open]
    /\ UNCHANGED manager

\* The Frigate events forwarded and not ended: a forwarded new or update
\* adds the ID of its event, a forwarded end removes it.
OpenAfter(open, events) ==
    IF events = <<>> THEN open
    ELSE IF events[1].type = "end" THEN open \ {events[1].id}
    ELSE open \cup {events[1].id}

\* The Frigate event watcher passes a change of an event of the camera
\* (its matcher compares the camera names) to the subscribed callback.
FrigateEvent(ev) ==
    /\ camera.constructed
    /\ camera.eventSubscription
    /\ LET done == frigateEventHandler(camera, ev)
       IN  emitted' = [NothingEmitted EXCEPT
                          !.op = "frigate_event",
                          !.change = ev,
                          !.events = done.events,
                          !.threw = done.threw,
                          !.open = OpenAfter(emitted.open, done.events)]
    /\ UNCHANGED <<camera, manager>>

\* Time passes: the clock moves on.
Tick ==
    /\ now < MaxTime
    /\ now' = now + 1
    /\ last' = [NoRun EXCEPT !.op = "time"]
    /\ UNCHANGED <<states, timers, untriggering, triggering,
                   throttleTimer, throttleArgs, throttleCooling>>

\* ------------------------------------------------------------ specification

\* A specification that keeps no history but the last run.
NoAux == UNCHANGED aux

\* The whole manager, for the events of one trigger entity of one camera.
TriggerEvents == {ev \in EntityEvents : ev.cameraID = "camera_1" /\ ev.id = "entity_1"}

\* Its configurations: with and without a trigger action, an untrigger
\* action and a grace period, under every interaction mode.
TriggerConfigs ==
    {NullConfig} \cup
    {Config(TRUE, g, FALSE, t, u, m, "live") :
        g \in GraceSeconds, t \in {"none", "live"},
        u \in UntriggerActions, m \in InteractionModes}

TriggerNext ==
    \/ \E ev \in TriggerEvents : HandleEndEvent(ev, TriggerConfigs) /\ NoAux
    \/ \E ev \in TriggerEvents :
          /\ HandleNewEvent(ev, FALSE, TriggerConfigs, {"camera_1"},
                            {NoDependencies})
          /\ NoAux
    \/ \E timer \in TimerIDs : TimerFires(timer, TriggerConfigs) /\ NoAux
    \/ \E k \in UntriggerKeys : UntriggerActionCompletes(k) /\ NoAux
    \/ \E k \in UntriggerKeys : UntriggerActionFails(k) /\ NoAux
    \/ ThrottleTimerFires(TriggerConfigs) /\ NoAux
    \/ ThrottleCoolingEnds /\ NoAux
    \/ \E c \in Cameras : TriggerActionCompletes(c) /\ NoAux
    \/ \E c \in Cameras : TriggerActionFails(c) /\ NoAux
    \/ Tick /\ NoAux

TriggerSpec == Init /\ [][TriggerNext]_vars

\* Two cameras with one trigger entity each, their events handled with the
\* trigger action, with and without a grace period.
PairEvents ==
    {CameraEvent(c, "entity_1", t, "low", FALSE, FALSE) :
        c \in Cameras, t \in {"new", "end"}}

PairConfigs ==
    {Config(TRUE, g, FALSE, "live", "default", "all", "live") : g \in GraceSeconds}

PairNext ==
    \/ \E ev \in PairEvents : HandleEndEvent(ev, PairConfigs) /\ NoAux
    \/ \E ev \in PairEvents :
          /\ HandleNewEvent(ev, FALSE, PairConfigs, {"camera_1"}, {NoDependencies})
          /\ NoAux
    \/ \E timer \in TimerIDs : TimerFires(timer, PairConfigs) /\ NoAux
    \/ \E k \in UntriggerKeys : UntriggerActionCompletes(k) /\ NoAux
    \/ \E k \in UntriggerKeys : UntriggerActionFails(k) /\ NoAux
    \/ ThrottleTimerFires(PairConfigs) /\ NoAux
    \/ ThrottleCoolingEnds /\ NoAux
    \/ \E c \in Cameras : TriggerActionCompletes(c) /\ NoAux
    \/ \E c \in Cameras : TriggerActionFails(c) /\ NoAux

PairSpec == Init /\ [][PairNext]_vars

\* Two cameras with one trigger entity each while the clock moves on: new,
\* update and end events handled without the trigger action.
RankEvents ==
    {ev \in EntityEvents : ev.id = "entity_1"}

RankNext ==
    \/ \E ev \in RankEvents : HandleEndEvent(ev, PairConfigs) /\ NoAux
    \/ \E ev \in RankEvents :
          /\ HandleNewEvent(ev, TRUE, PairConfigs, {"camera_1"}, {NoDependencies})
          /\ NoAux
    \/ \E timer \in TimerIDs : TimerFires(timer, PairConfigs) /\ NoAux
    \/ \E k \in UntriggerKeys : UntriggerActionCompletes(k) /\ NoAux
    \/ \E k \in UntriggerKeys : UntriggerActionFails(k) /\ NoAux
    \/ Tick /\ NoAux

RankSpec == Init /\ [][RankNext]_vars

\* The life cycle of the trigger states: a camera with two trigger entities
\* and a camera with one, their events handled without the trigger action
\* (skipAction).
LifecycleEvents ==
    {ev \in EntityEvents :
        /\ ev.cameraID = "camera_2" => ev.id = "entity_1"
        /\ ev.type = "update" => ev.cameraID = "camera_1"}

Next ==
    \/ \E ev \in LifecycleEvents : HandleEndEvent(ev, LifecycleConfigs) /\ NoAux
    \/ \E ev \in LifecycleEvents :
          /\ HandleNewEvent(ev, TRUE, LifecycleConfigs, {"camera_1"},
                            DependencyConfigs)
          /\ NoAux
    \/ \E timer \in TimerIDs : TimerFires(timer, LifecycleConfigs) /\ NoAux
    \/ \E k \in UntriggerKeys : UntriggerActionCompletes(k) /\ NoAux
    \/ \E k \in UntriggerKeys : UntriggerActionFails(k) /\ NoAux

Spec == Init /\ [][Next]_vars

\* The actions taken for the events of one source of one camera, of low and
\* of high fidelity, under every trigger action, untrigger action,
\* interaction mode and default view.
ActionEvents ==
    {CameraEvent("camera_1", "entity_1", t, "low", FALSE, FALSE) : t \in {"new", "end"}}
    \cup {CameraEvent("camera_1", "entity_1", "new", "high", clip, snapshot) :
            clip \in BOOLEAN, snapshot \in BOOLEAN}

\* Every combination of the fields the trigger action reads, and every
\* combination of the fields the untrigger action reads, without a grace
\* period.
ActionConfigs ==
    {cfg \in AllConfigs :
        /\ ~cfg.filter_selected_camera
        /\ cfg.untrigger_seconds = 0
        /\ \/ ~cfg.present
           \/ cfg.untrigger = "none"
           \/ cfg.trigger = "none" /\ cfg.default = "live"}

ActionNext ==
    \/ \E ev \in ActionEvents : HandleEndEvent(ev, ActionConfigs) /\ NoAux
    \/ \E ev \in ActionEvents :
          /\ HandleNewEvent(ev, FALSE, ActionConfigs, {"camera_1"},
                            {NoDependencies})
          /\ NoAux
    \/ \E k \in UntriggerKeys : UntriggerActionCompletes(k) /\ NoAux
    \/ \E k \in UntriggerKeys : UntriggerActionFails(k) /\ NoAux
    \/ ThrottleTimerFires(ActionConfigs) /\ NoAux
    \/ ThrottleCoolingEnds /\ NoAux
    \/ \E c \in Cameras : TriggerActionCompletes(c) /\ NoAux
    \/ \E c \in Cameras : TriggerActionFails(c) /\ NoAux

ActionSpec == Init /\ [][ActionNext]_vars

\* The calls of the view manager that _triggerAction makes.
TriggerCalls == {"refresh", "live", "default", "clip", "snapshot"}

\* The dispatches counted: a camera that becomes triggered starts a new count
\* of trigger actions, a camera that becomes untriggered a new count of
\* untrigger actions, and the call of the run, if any, is counted for the
\* camera of its event or of its untrigger.
Counted ==
    /\ UNCHANGED <<destroyed, scan, env, enqueued, camera, emitted,
                   acceptedEvents>>
    /\ dispatched' =
           [c \in Cameras |->
               LET before == c \in getTriggeredCameraIDs(states)
                   after == c \in getTriggeredCameraIDs(states')
                   t == IF ~before /\ after THEN 0 ELSE dispatched[c].trigger
                   u == IF before /\ ~after THEN 0 ELSE dispatched[c].untrigger
                   dt == IF last'.call \in TriggerCalls /\ last'.invoked.cameraID = c
                         THEN 1 ELSE 0
                   du == IF last'.call = "untrigger_default" /\ last'.cam = c
                         THEN 1 ELSE 0
                   cap(n) == IF n > MaxDispatched THEN MaxDispatched ELSE n
               IN  [trigger |-> cap(t + dt), untrigger |-> cap(u + du)]]
    /\ windowDispatched' =
           LET w == IF ~throttleTimer /\ throttleTimer' THEN 0 ELSE windowDispatched
               d == IF last'.call \in TriggerCalls THEN 1 ELSE 0
           IN  IF w + d > MaxDispatched THEN MaxDispatched ELSE w + d

\* The dispatches of one camera with one trigger entity: with and without a
\* grace period, with a trigger and an untrigger action, the gate open.
DispatchConfigs ==
    {NullConfig} \cup
    {Config(TRUE, g, FALSE, "live", "default", "all", "live") : g \in GraceSeconds}

DispatchNext ==
    \/ \E ev \in TriggerEvents : HandleEndEvent(ev, DispatchConfigs) /\ Counted
    \/ \E ev \in TriggerEvents :
          /\ HandleNewEvent(ev, FALSE, DispatchConfigs, {"camera_1"},
                            {NoDependencies})
          /\ Counted
    \/ \E timer \in TimerIDs : TimerFires(timer, DispatchConfigs) /\ Counted
    \/ \E k \in UntriggerKeys : UntriggerActionCompletes(k) /\ Counted
    \/ \E k \in UntriggerKeys : UntriggerActionFails(k) /\ Counted
    \/ ThrottleTimerFires(DispatchConfigs) /\ Counted
    \/ ThrottleCoolingEnds /\ Counted
    \/ \E c \in Cameras : TriggerActionCompletes(c) /\ Counted
    \/ \E c \in Cameras : TriggerActionFails(c) /\ Counted

DispatchSpec == Init /\ [][DispatchNext]_vars

\* The card discards the manager.  TriggersManager has no method that the
\* card could call for it: no code of the manager runs, and the timers, the
\* throttle and the suspended calls stay as they are.
Destroy ==
    /\ ~destroyed
    /\ destroyed' = TRUE
    /\ last' = [NoRun EXCEPT !.op = "destroy"]
    /\ UNCHANGED <<states, timers, untriggering, triggering, throttleTimer,
                   throttleArgs, throttleCooling, now, scan, dispatched,
                   windowDispatched, env, enqueued, camera, emitted,
                   acceptedEvents>>

\* The manager of one camera with one trigger entity until and after the
\* card discards it: events are handled until then, and what is pending
\* runs on.
DestroyNext ==
    \/ \E ev \in TriggerEvents :
          ~destroyed /\ HandleEndEvent(ev, DispatchConfigs) /\ NoAux
    \/ \E ev \in TriggerEvents :
          /\ ~destroyed
          /\ HandleNewEvent(ev, FALSE, DispatchConfigs, {"camera_1"},
                            {NoDependencies})
          /\ NoAux
    \/ \E timer \in TimerIDs : TimerFires(timer, DispatchConfigs) /\ NoAux
    \/ \E k \in UntriggerKeys : UntriggerActionCompletes(k) /\ NoAux
    \/ \E k \in UntriggerKeys : UntriggerActionFails(k) /\ NoAux
    \/ ThrottleTimerFires(DispatchConfigs) /\ NoAux
    \/ ThrottleCoolingEnds /\ NoAux
    \/ \E c \in Cameras : TriggerActionCompletes(c) /\ NoAux
    \/ \E c \in Cameras : TriggerActionFails(c) /\ NoAux
    \/ Destroy

DestroySpec == Init /\ [][DestroyNext]_vars

\* The scan of the trigger entities, at the start of the card and again:
\* with and without a configuration, a trigger action and the filter, under
\* every selection and two dependency declarations.
InitialConfigs ==
    {NullConfig} \cup
    {Config(TRUE, 0, f, t, "none", "all", "live") :
        f \in BOOLEAN, t \in {"none", "live"}}

InitialDependencies ==
    {NoDependencies, Dependencies(FALSE, {"camera_2"}, FALSE, {})}

ScanOnly ==
    UNCHANGED <<destroyed, dispatched, windowDispatched, env, enqueued,
                camera, emitted, acceptedEvents>>

InitialNext ==
    \/ HandleInitialCameraTriggers(InitialConfigs, Cameras, InitialDependencies)
          /\ ScanOnly
    \/ InitialCameraTriggersResume(InitialConfigs, Cameras, InitialDependencies)
          /\ ScanOnly
    \/ InitialCameraTriggersReturn /\ ScanOnly
    \/ InitialCameraTriggersRejects /\ ScanOnly
    \/ ThrottleTimerFires(InitialConfigs) /\ NoAux
    \/ ThrottleCoolingEnds /\ NoAux
    \/ \E c \in Cameras : TriggerActionCompletes(c) /\ NoAux
    \/ \E c \in Cameras : TriggerActionFails(c) /\ NoAux

InitialSpec == Init /\ [][InitialNext]_vars

\* The configuration and the interaction state kept as state: the runs read
\* them, and they change between the runs.
GateConfigs ==
    {NullConfig} \cup
    {Config(TRUE, 10, FALSE, "live", "default", m, "live") :
        m \in {"active", "inactive"}}

GateEnvironments ==
    {Environment(cfg, i) : cfg \in GateConfigs \ {NullConfig}, i \in BOOLEAN}

EnvironmentChanges ==
    /\ \E e \in GateEnvironments \ {env} : env' = e
    /\ last' = [NoRun EXCEPT !.op = "environment"]
    /\ UNCHANGED <<states, timers, untriggering, triggering, throttleTimer,
                   throttleArgs, throttleCooling, now, destroyed, scan,
                   dispatched, windowDispatched, enqueued, camera, emitted,
                   acceptedEvents>>

DispatchEnvironmentAtEnqueue ==
    IF last'.op = "timer" /\ enqueued.untrigger # NoEnvironment
    THEN enqueued.untrigger
    ELSE IF last'.op = "throttle" /\ enqueued.trigger # NoEnvironment
    THEN enqueued.trigger
    ELSE env

\* The environment a run reads: getConfig() and hasInteraction() are called
\* by the run itself, in _triggerAction, _executeUntriggerAction and the
\* gate, and return what holds then.
DispatchEnvironment ==
    env

\* Whether a run read the interaction state: the gate is called by an
\* untrigger with an action, and by a trigger action that is not suppressed.
ReadsInteraction(run) ==
    \/ /\ run.op \in {"timer", "end"}
       /\ run.cfgRead /\ run.cfg.present /\ run.cfg.untrigger # "none"
    \/ /\ run.op \in {"new", "throttle"}
       /\ run.invoked # NoEvent
       /\ run.cfg.present /\ ~TriggerSuppressed(run.invoked, run.cfg)

\* The run read the environment, which it leaves as it is; the environment
\* at the last start of a grace timer and at the last holding of an event
\* is kept.
ReadsEnvironment ==
    /\ last'.cfgRead =>
          last'.cfg \in {UntriggerView(DispatchEnvironment.cfg),
                         EndView(DispatchEnvironment.cfg),
                         TriggerView(last'.invoked, DispatchEnvironment.cfg),
                         NewView(last'.ev, DispatchEnvironment.cfg),
                         FilterView(DispatchEnvironment.cfg)}
    /\ last'.interaction = (DispatchEnvironment.interaction /\ ReadsInteraction(last'))
    /\ env' = env
    /\ enqueued' =
          [untrigger |->
              IF last'.op = "end" /\ last'.started # NoTimer THEN env
              ELSE enqueued.untrigger,
           trigger |->
              IF last'.op = "new" /\ throttleArgs' # NoEvent THEN env
              ELSE enqueued.trigger]
    /\ UNCHANGED <<destroyed, scan, dispatched, windowDispatched,
                   camera, emitted, acceptedEvents>>

GateNext ==
    \/ \E ev \in TriggerEvents :
          HandleEndEvent(ev, GateConfigs) /\ ReadsEnvironment
    \/ \E ev \in TriggerEvents :
          /\ HandleNewEvent(ev, FALSE, GateConfigs, {"camera_1"}, {NoDependencies})
          /\ ReadsEnvironment
    \/ \E timer \in TimerIDs : TimerFires(timer, GateConfigs) /\ ReadsEnvironment
    \/ \E k \in UntriggerKeys : UntriggerActionCompletes(k) /\ ReadsEnvironment
    \/ \E k \in UntriggerKeys : UntriggerActionFails(k) /\ ReadsEnvironment
    \/ ThrottleTimerFires(GateConfigs) /\ ReadsEnvironment
    \/ ThrottleCoolingEnds /\ ReadsEnvironment
    \/ \E c \in Cameras : TriggerActionCompletes(c) /\ ReadsEnvironment
    \/ \E c \in Cameras : TriggerActionFails(c) /\ ReadsEnvironment
    \/ EnvironmentChanges

GateSpec == Init /\ [][GateNext]_vars

\* The accepted events counted: an accepted new or update event counts for
\* its source, an end event closes the count of its source.
CountsAccepted ==
    /\ UNCHANGED <<destroyed, scan, dispatched, windowDispatched, env,
                   enqueued, camera, emitted>>
    /\ acceptedEvents' =
          IF last'.op = "new" /\ last'.ret = "true"
          THEN [acceptedEvents EXCEPT ![last'.ev.cameraID][last'.ev.id].open =
                                    IF @ < MaxAccepted THEN @ + 1 ELSE @]
          ELSE IF last'.op = "end"
          THEN [acceptedEvents EXCEPT ![last'.ev.cameraID][last'.ev.id] =
                                    [open |-> 0, closed |-> @.open]]
          ELSE acceptedEvents

\* The events of the two trigger entities of one camera.
SetEvents ==
    {ev \in EntityEvents :
        /\ ev.cameraID = "camera_1"
        /\ ev.type = "update" => ev.id = "entity_1"}

\* One camera with two trigger entities whose new and update events
\* repeat: with and without a grace period, with the untrigger action
\* 'default' that returns, without trigger actions.
SetNext ==
    \/ \E ev \in SetEvents : HandleEndEvent(ev, DispatchConfigs) /\ CountsAccepted
    \/ \E ev \in SetEvents :
          /\ HandleNewEvent(ev, TRUE, DispatchConfigs, {"camera_1"},
                            {NoDependencies})
          /\ CountsAccepted
    \/ \E timer \in TimerIDs : TimerFires(timer, DispatchConfigs) /\ CountsAccepted
    \/ \E k \in UntriggerKeys : UntriggerActionCompletes(k) /\ CountsAccepted

SetSpec == Init /\ [][SetNext]_vars

\* One camera with two trigger entities when every running grace timer
\* fires and every awaited dispatch returns: a timer that stays running
\* fires, and a suspended _untriggerAction resumes.
LiveTimerFires ==
    \E timer \in TimerIDs : TimerFires(timer, DispatchConfigs) /\ NoAux

LiveUntriggerActionCompletes ==
    \E k \in UntriggerKeys : UntriggerActionCompletes(k) /\ NoAux

LiveNext ==
    \/ \E ev \in SetEvents : HandleEndEvent(ev, DispatchConfigs) /\ NoAux
    \/ \E ev \in SetEvents :
          /\ HandleNewEvent(ev, TRUE, DispatchConfigs, {"camera_1"},
                            {NoDependencies})
          /\ NoAux
    \/ LiveTimerFires
    \/ LiveUntriggerActionCompletes

LiveSpec ==
    /\ Init
    /\ [][LiveNext]_vars
    /\ WF_vars(LiveTimerFires)
    /\ WF_vars(LiveUntriggerActionCompletes)

\* A camera of the base class from its construction on: with and without
\* an ID and an event callback, initialized with and without the trigger
\* capability, while the states of the entities change.
CameraNext ==
    \/ \E id \in {NoCamera, "camera_1"}, entities \in SUBSET Sources,
          eventCallback \in BOOLEAN :
          CameraConstruct("generic", id, entities, eventCallback)
    \/ \E id \in Cameras : CameraSetID(id)
    \/ \E has \in {{}, {"trigger"}} : CameraInitialize(has)
    \/ CameraDestroy
    \/ \E difference \in Differences : StateChanges(difference)

CameraSpec == Init /\ [][CameraNext]_vars

\* The configurations of triggers.events.
TriggerEventKinds == {"events", "snapshots", "clips"}

\* A Frigate camera from its construction on: with and without an ID, with
\* and without zone and label filters, with every configuration of
\* triggers.events, while changes of a Frigate event arrive.
FrigateNext ==
    \/ \E id \in {NoCamera, "camera_1"}, zones \in SUBSET Zones,
          labels \in SUBSET {"person"}, events \in SUBSET TriggerEventKinds :
          FrigateCameraConstruct(id, TRUE, TRUE, zones, labels, events)
    \/ CameraSetID("camera_1")
    \/ \E has \in {{}, {"trigger"}} : FrigateCameraInitialize(has)
    \/ CameraDestroy
    \/ \E ev \in FrigateEventChanges : FrigateEvent(ev)

FrigateSpec == Init /\ [][FrigateNext]_vars


\* ------------------------------------------------------------------ claims

\* The state of camera c holds a timer that is running for c.
PendingTimer(st, tm, c) ==
    /\ st[c].untriggerDelayTimer # NoTimer
    /\ st[c].untriggerDelayTimer \in DOMAIN tm
    /\ tm[st[c].untriggerDelayTimer] = c

\* The cameras whose store entry has a source or a pending untrigger timer.
TriggeredEntries(st, tm) ==
    {c \in DOMAIN st : st[c].sources # {} \/ PendingTimer(st, tm, c)}

SourcesOf(st, c) ==
    IF c \in DOMAIN st THEN st[c].sources ELSE {}

\* The last run handled an end event of camera c.
EndRun(run, c) ==
    run.op = "end" /\ run.ev.cameraID = c

\* The last run handled a new or update event of camera c.
NewRun(run, c) ==
    run.op = "new" /\ run.ev.cameraID = c

\* C1: in every reachable state getTriggeredCameraIDs() is the set of the
\* cameras whose entry has a source or a pending untrigger timer,
\* isTriggered() is true exactly when that set is not empty, and
\* getMostRecentlyTriggeredCameraID() is null exactly when the set is empty
\* and a member of it otherwise.
C1_DerivedViews ==
    LET T == TriggeredEntries(states, timers)
        recent == getMostRecentlyTriggeredCameraID(states)
    IN  /\ getTriggeredCameraIDs(states) = T
        /\ isTriggered(states) <=> (T # {})
        /\ (NoCamera \in recent) <=> (T = {})
        /\ T # {} => recent \subseteq T

\* One camera is triggered by its pending timer alone while the entry of
\* another camera has neither a source nor a timer and is not triggered.
C1_Witness ==
    /\ \E c \in DOMAIN states :
          states[c].sources = {} /\ PendingTimer(states, timers, c)
    /\ \E c \in DOMAIN states :
          states[c].sources = {} /\ states[c].untriggerDelayTimer = NoTimer
    /\ getTriggeredCameraIDs(states) # DOMAIN states

\* C2: for a camera with two or more active sources an end event for one of
\* them leaves the camera triggered, starts no untrigger timer and dispatches
\* no untrigger action; and a camera leaves the triggered set only with the
\* end of its grace period (its timer firing, or an end event under a grace
\* period of zero) after the end event of its last active source.
C2_MultipleSources ==
    [][\A c \in Cameras :
        /\ (EndRun(last', c) /\ Cardinality(SourcesOf(states, c)) >= 2)
           => /\ c \in getTriggeredCameraIDs(states')
              /\ last'.started = NoTimer
              /\ last'.call = "none"
              /\ timers' = timers
              /\ untriggering' = untriggering
        /\ (c \in getTriggeredCameraIDs(states) /\ c \notin getTriggeredCameraIDs(states'))
           => \/ last'.op = "timer" /\ last'.cam = c /\ SourcesOf(states, c) = {}
              \/ /\ EndRun(last', c)
                 /\ SourcesOf(states, c) \subseteq {last'.ev.id}
                 /\ last'.cfg.untrigger_seconds = 0
      ]_vars

\* C3: when a new or update event of a camera is accepted while the grace
\* timer of the camera is pending, the timer is stopped and no longer runs,
\* the camera is in the triggered set before and after the event, its state
\* is kept with the source of the event, and no untrigger action is run.
C3_NewCancelsGraceTimer ==
    [][\A c \in Cameras :
        (/\ NewRun(last', c)
         /\ last'.ret = "true"
         /\ TimerOf(states, c) # NoTimer
         /\ TimerOf(states, c) \in DOMAIN timers)
        => /\ TimerOf(states, c) \notin DOMAIN timers'
           /\ last'.stopped = TimerOf(states, c)
           /\ c \in getTriggeredCameraIDs(states)
           /\ c \in getTriggeredCameraIDs(states')
           /\ c \in DOMAIN states'
           /\ TimerOf(states', c) = NoTimer
           /\ last'.ev.id \in states'[c].sources
           /\ untriggering' = untriggering
           /\ last'.call # "untrigger_default"
      ]_vars

\* A new event was accepted and stopped the running grace timer of its camera.
C3_Witness ==
    /\ last.op = "new"
    /\ last.ret = "true"
    /\ last.stopped # NoTimer
    /\ last.cam \in getTriggeredCameraIDs(states)

\* C4: with untrigger_seconds = 0 an end event for the only source of a
\* triggered camera schedules no timer, takes the camera out of the triggered
\* set and attempts the untrigger action exactly once: one _untriggerAction
\* is started, which calls the view manager once when an untrigger action is
\* configured and the gate allows it; its continuation deletes the state and
\* calls nothing.
C4_ZeroGrace ==
    [][\A c \in Cameras :
        /\ (/\ EndRun(last', c)
            /\ c \in DOMAIN states
            /\ states[c].sources = {last'.ev.id}
            /\ last'.cfgRead
            /\ last'.cfg.untrigger_seconds = 0)
           => /\ c \in getTriggeredCameraIDs(states)
              /\ c \notin getTriggeredCameraIDs(states')
              /\ last'.started = NoTimer
              /\ DOMAIN timers' \subseteq DOMAIN timers
              /\ InFlight(untriggering') = InFlight(untriggering) + 1
              /\ (last'.call = "untrigger_default")
                   <=> (/\ last'.cfg.present
                        /\ last'.cfg.untrigger = "default"
                        /\ hasAllowableInteractionStateForAction(
                              last'.cfg, last'.interaction))
              /\ last'.call \in {"none", "untrigger_default"}
        /\ (last'.op = "untriggered" /\ last'.cam = c)
           => /\ c \notin DOMAIN states'
              /\ last'.call = "none"
              /\ timers' = timers
              /\ InFlight(untriggering') = InFlight(untriggering) - 1
      ]_vars

\* An end event under a grace period of zero untriggered its camera and
\* called the view manager for the untrigger action.
C4_Witness ==
    /\ last.op = "end"
    /\ last.removed
    /\ last.cfg.present
    /\ last.cfg.untrigger_seconds = 0
    /\ last.call = "untrigger_default"
    /\ last.cam \in DOMAIN states
    /\ last.cam \notin getTriggeredCameraIDs(states)
    /\ untriggering[[cam |-> last.cam, dispatched |-> TRUE]] = 1

\* The phase of camera c in the per-camera state machine.
Phase(st, c) ==
    IF c \notin getTriggeredCameraIDs(st) THEN "Idle"
    ELSE IF st[c].sources # {} THEN "Active"
    ELSE "Grace"

\* C5: a camera changes phase only from Idle to Active (accepted new or
\* update event), from Active to Grace (its last source ends, grace period
\* above zero), from Grace to Active (accepted new or update event stops the
\* timer), from Grace to Idle (its timer fires) and from Active to Idle (its
\* last source ends, grace period zero).
C5_StateMachine ==
    [][\A c \in Cameras :
        LET p == Phase(states, c)
            q == Phase(states', c)
        IN  p # q =>
              \/ /\ p = "Idle" /\ q = "Active"
                 /\ NewRun(last', c) /\ last'.ret = "true"
              \/ /\ p = "Active" /\ q = "Grace"
                 /\ EndRun(last', c)
                 /\ states[c].sources = {last'.ev.id}
                 /\ last'.cfg.untrigger_seconds > 0
              \/ /\ p = "Grace" /\ q = "Active"
                 /\ NewRun(last', c) /\ last'.ret = "true"
                 /\ last'.stopped = TimerOf(states, c)
              \/ /\ p = "Grace" /\ q = "Idle"
                 /\ last'.op = "timer" /\ last'.cam = c
                 /\ last'.fired = TimerOf(states, c)
              \/ /\ p = "Active" /\ q = "Idle"
                 /\ EndRun(last', c)
                 /\ states[c].sources = {last'.ev.id}
                 /\ last'.cfg.untrigger_seconds = 0
      ]_vars

\* C6: a new or update event handled without a trigger configuration or
\* without a selected camera makes handleCameraEvent return false, leaves the
\* store and its timers unchanged, publishes nothing to the condition-state
\* sink and neither calls nor schedules the trigger action.
C6_RejectedWithoutConfigOrView ==
    [][(/\ last'.op = "new"
        /\ (~last'.cfg.present \/ last'.selected = NoCamera))
       => /\ last'.ret = "false"
          /\ states' = states
          /\ timers' = timers
          /\ ~last'.sink
          /\ last'.call = "none"
          /\ last'.invoked = NoEvent
          /\ triggering' = triggering
          /\ throttleTimer' = throttleTimer
          /\ throttleArgs' = throttleArgs
          /\ throttleCooling' = throttleCooling
      ]_vars

\* A new event was rejected for want of a selected camera only, at a moment
\* when the store already held a triggered camera.
C6_Witness ==
    /\ last.op = "new"
    /\ last.ret = "false"
    /\ last.cfg.present
    /\ last.selected = NoCamera
    /\ isTriggered(states)

\* C7: with a configuration and a selected camera, a new or update event is
\* rejected (false returned, store and timers unchanged, nothing published)
\* exactly when filter_selected_camera is enabled and the camera of the event
\* is outside the dependent cameras of the selected camera, a set that holds
\* the selected camera; every other event is accepted and its source stored.
C7_FilterSelectedCamera ==
    [][(/\ last'.op = "new"
        /\ last'.cfg.present
        /\ last'.selected # NoCamera)
       => LET outside == /\ last'.cfg.filter_selected_camera
                         /\ last'.cam \notin last'.dependents
          IN  /\ last'.cfg.filter_selected_camera
                    => last'.selected \in last'.dependents
              /\ outside
                    => /\ last'.ret = "false"
                       /\ states' = states
                       /\ timers' = timers
                       /\ ~last'.sink
              /\ ~outside
                    => /\ last'.ret = "true"
                       /\ last'.cam \in DOMAIN states'
                       /\ last'.ev.id \in states'[last'.cam].sources
                       /\ last'.cam \in getTriggeredCameraIDs(states')
                       /\ last'.sink
      ]_vars

\* Under the filter an event of a camera other than the selected one was
\* accepted through a dependency, and the other camera is triggered.
C7_Witness ==
    /\ last.op = "new"
    /\ last.ret = "true"
    /\ last.cfg.filter_selected_camera
    /\ last.cam # last.selected
    /\ last.cam \in last.dependents
    /\ last.cam \in getTriggeredCameraIDs(states)

\* C8: handleCameraEvent resolves with true for every end event, whatever the
\* configuration: the source of the event is removed from the state of its
\* camera, and when that leaves a state without sources the untrigger path
\* runs (a timer is started, or _untriggerAction is).  No selected camera and
\* no dependency is read.
C8_EndNeverFiltered ==
    [][last'.op = "end"
       => LET c == last'.cam
          IN  /\ last'.ret = "true"
              /\ last'.selected = NoCamera
              /\ last'.dependents = {}
              /\ c \in DOMAIN states
                    => /\ c \in DOMAIN states'
                       /\ states'[c].sources = states[c].sources \ {last'.ev.id}
              /\ (c \in DOMAIN states /\ states[c].sources \subseteq {last'.ev.id})
                    => /\ last'.cfgRead
                       /\ IF last'.cfg.untrigger_seconds > 0
                          THEN /\ last'.started # NoTimer
                               /\ states'[c].untriggerDelayTimer = last'.started
                               /\ last'.started \in DOMAIN timers'
                               /\ untriggering' = untriggering
                          ELSE /\ last'.started = NoTimer
                               /\ InFlight(untriggering') = InFlight(untriggering) + 1
      ]_vars

\* Without a trigger configuration an end event removed the last source of a
\* camera and ran the untrigger path.
C8_Witness ==
    /\ last.op = "end"
    /\ last.ret = "true"
    /\ last.removed
    /\ last.cfgRead
    /\ ~last.cfg.present
    /\ last.cam \in DOMAIN states
    /\ states[last.cam].sources = {}
    /\ InFlight(untriggering) > 0

\* C9: an end event of a camera without a state creates no state, starts and
\* stops no timer, starts no _untriggerAction, calls nothing and publishes
\* nothing; handleCameraEvent resolves normally.
C9_EndWithoutState ==
    [][(last'.op = "end" /\ last'.cam \notin DOMAIN states)
       => /\ states' = states
          /\ timers' = timers
          /\ untriggering' = untriggering
          /\ last'.started = NoTimer
          /\ last'.stopped = NoTimer
          /\ last'.call = "none"
          /\ ~last'.sink
          /\ ~last'.updated
          /\ last'.ret = "true"
      ]_vars

\* An end event of a camera without a state was handled while another camera
\* was triggered.
C9_Witness ==
    /\ last.op = "end"
    /\ last.cam \notin DOMAIN states
    /\ isTriggered(states)

\* C10: an end event for a source that is not among the sources of its
\* camera changes nothing: the store, the running timers and the started
\* untrigger actions stay as they are, and nothing is called.
C10_DuplicateEnd ==
    [][(/\ last'.op = "end"
        /\ last'.ev.id \notin SourcesOf(states, last'.cam))
       => /\ states' = states
          /\ timers' = timers
          /\ untriggering' = untriggering
          /\ last'.started = NoTimer
          /\ last'.stopped = NoTimer
          /\ last'.call = "none"
      ]_vars

C12_UntriggerDeletesState ==
    [][/\ (\/ last'.op = "timer"
           \/ /\ last'.op = "end"
              /\ last'.cam \in DOMAIN states
              /\ states[last'.cam].sources \subseteq {last'.ev.id}
              /\ untriggerSeconds(last'.cfg) = 0)
          => LET k == [cam |-> last'.cam,
                       dispatched |-> last'.call = "untrigger_default"]
             IN  untriggering' = Suspend(untriggering, k)
       /\ last'.op = "untriggered"
          => /\ InFlight(untriggering') = InFlight(untriggering) - 1
             /\ last'.cam \notin DOMAIN states'
             /\ \A c \in DOMAIN states : c # last'.cam =>
                    c \in DOMAIN states' /\ states'[c] = states[c]
             /\ last'.sink
             /\ last'.sunk = ConditionState(states')
             /\ last'.cam \notin last'.sunk.ids
             /\ last'.updated
      ]_vars

\* An untrigger that called nothing (the gate was closed, or no action is
\* configured) has deleted the state of its camera and published the set of
\* the other camera, which is still triggered.
C12_Witness ==
    /\ last.op = "untriggered"
    /\ last.awaited = "return"
    /\ last.cam \notin DOMAIN states
    /\ last.sunk.defined
    /\ last.sunk.ids = getTriggeredCameraIDs(states)
    /\ last.sunk.ids # {}

\* C13: a run of the untrigger path (a timer expiry, or an end event that
\* leaves a state without sources under a grace period of zero) calls
\* setViewDefaultWithNewQuery exactly when the configuration it reads has the
\* untrigger action 'default' and its interaction mode allows the interaction
\* state it reads; with the action 'none' or without configuration it calls
\* nothing, and no other run makes this call.
C13_UntriggerDispatch ==
    [][LET run == last'
           untriggers ==
               \/ run.op = "timer"
               \/ /\ run.op = "end"
                  /\ run.cam \in DOMAIN states
                  /\ states[run.cam].sources \subseteq {run.ev.id}
                  /\ untriggerSeconds(run.cfg) = 0
           allowed ==
               /\ run.cfg.present
               /\ \/ run.cfg.interaction_mode = "all"
                  \/ run.cfg.interaction_mode = "active" /\ run.interaction
                  \/ run.cfg.interaction_mode = "inactive" /\ ~run.interaction
       IN  /\ untriggers
              => /\ run.cfgRead
                 /\ (run.call = "untrigger_default")
                       <=> (run.cfg.present /\ run.cfg.untrigger = "default" /\ allowed)
                 /\ run.call \in {"none", "untrigger_default"}
           /\ ~untriggers => run.call # "untrigger_default"
      ]_vars

\* A grace timer fired during an interaction, under the interaction mode
\* 'active' and the untrigger action 'default', and the navigation was
\* dispatched.
C13_Witness ==
    /\ last.op = "timer"
    /\ last.cfg.untrigger = "default"
    /\ last.cfg.interaction_mode = "active"
    /\ last.interaction
    /\ last.call = "untrigger_default"
    /\ untriggering[[cam |-> last.cam, dispatched |-> TRUE]] = 1

\* The Action Gate as the specification states it.
GateAllows(cfg, hasInteraction) ==
    /\ cfg.present
    /\ \/ cfg.interaction_mode = "all"
       \/ cfg.interaction_mode = "active" /\ hasInteraction
       \/ cfg.interaction_mode = "inactive" /\ ~hasInteraction

\* The run is a call of _triggerAction: by handleCameraEvent outside a
\* throttle window, or by the trailing call of the throttle.
TriggerRun(run) ==
    run.op \in {"new", "throttle"} /\ run.invoked # NoEvent

\* The action that a _triggerAction run would dispatch if the gate allowed it.
WantedTriggerCall(run) ==
    TriggerCall(run.invoked, run.cfg, FALSE) # "none"
    \/ TriggerCall(run.invoked, run.cfg, TRUE) # "none"

\* C14: the gate allows exactly when there is a trigger configuration and
\* its interaction mode is 'all', or 'active' with an interaction, or
\* 'inactive' without one.  A run calls the view manager only when the gate
\* allows the interaction state it reads, and a run that has an action to
\* dispatch (a trigger action for an event that is not suppressed, or the
\* untrigger action 'default') calls it exactly when the gate allows.
C14_ActionGate ==
    [][LET run == last'
           allowed == GateAllows(run.cfg, run.interaction)
       IN  /\ \A cfg \in AllConfigs, hasInteraction \in BOOLEAN :
                 hasAllowableInteractionStateForAction(cfg, hasInteraction)
                    <=> GateAllows(cfg, hasInteraction)
           /\ run.call # "none" => allowed
           /\ (TriggerRun(run) /\ WantedTriggerCall(run))
                 => ((run.call \in TriggerCalls) <=> allowed)
           /\ (run.op = "end" /\ run.cfgRead /\ run.cfg.present
               /\ run.cfg.untrigger = "default")
                 => ((run.call = "untrigger_default") <=> allowed)
      ]_vars

\* Under the interaction mode 'active' an event was handled without an
\* interaction: the trigger action 'live' was not dispatched.
C14_Witness ==
    /\ last.op = "new"
    /\ last.invoked # NoEvent
    /\ last.cfg.trigger = "live"
    /\ last.cfg.interaction_mode = "active"
    /\ ~last.interaction
    /\ last.call = "none"
    /\ InFlight(triggering) = 0
    /\ last.cam \in getTriggeredCameraIDs(states)

\* The untrigger action that an environment asks for and allows.
UntriggerWanted(e) ==
    /\ e.cfg.present
    /\ e.cfg.untrigger = "default"
    /\ GateAllows(e.cfg, e.interaction)

\* The trigger action for an event that an environment asks for and allows.
TriggerWanted(ev, e) ==
    /\ GateAllows(e.cfg, e.interaction)
    /\ TriggerCall(ev, e.cfg, e.interaction) # "none"

\* C15: the expiry of a grace timer dispatches the untrigger action exactly
\* when the configuration and the interaction state that hold at the expiry
\* ask for it and allow it, and the trailing call of the throttle dispatches
\* the trigger action exactly when those that hold at that call do, whatever
\* held when the timer was started or the event was taken.
C15_ReadAtDispatch ==
    [][/\ last'.op = "timer" =>
             ((last'.call = "untrigger_default") <=> UntriggerWanted(env))
       /\ (last'.op = "throttle" /\ last'.invoked # NoEvent) =>
             ((last'.call \in TriggerCalls) <=> TriggerWanted(last'.invoked, env))
      ]_vars

\* A grace timer that was started while the gate was closed has expired with
\* the gate open, and the untrigger action was dispatched.
C15_Witness ==
    /\ last.op = "timer"
    /\ last.call = "untrigger_default"
    /\ enqueued.untrigger # NoEnvironment
    /\ ~GateAllows(enqueued.untrigger.cfg, enqueued.untrigger.interaction)
    /\ GateAllows(env.cfg, env.interaction)

\* A high-fidelity event with neither clip nor snapshot.
NoMedia(ev) ==
    ev # NoEvent /\ ev.fidelity = "high" /\ ~ev.clip /\ ~ev.snapshot

\* The configured trigger action changes to the live view.
ToLive(cfg) ==
    /\ cfg.present
    /\ \/ cfg.trigger = "live"
       \/ cfg.trigger = "default" /\ cfg.default = "live"

\* C16: a call of _triggerAction for a high-fidelity event with neither clip
\* nor snapshot dispatches nothing unless the trigger action is 'live' or is
\* 'default' with the default view 'live', in which case it dispatches
\* whenever the gate allows; the accepted event leaves its camera triggered
\* in either case.
C16_HighFidelitySuppression ==
    [][LET run == last'
       IN  /\ (TriggerRun(run) /\ NoMedia(run.invoked) /\ ~ToLive(run.cfg))
                 => run.call = "none"
           /\ (TriggerRun(run) /\ NoMedia(run.invoked) /\ ToLive(run.cfg)
               /\ GateAllows(run.cfg, run.interaction))
                 => run.call \in {"live", "default"}
           /\ (run.op = "new" /\ run.ret = "true" /\ NoMedia(run.ev))
                 => run.ev.cameraID \in getTriggeredCameraIDs(states')
      ]_vars

\* A high-fidelity event without media was accepted under the trigger action
\* 'media': nothing was dispatched and the camera is triggered.
C16_Witness ==
    /\ last.op = "new"
    /\ last.ret = "true"
    /\ NoMedia(last.ev)
    /\ last.invoked = last.ev
    /\ last.cfg.present
    /\ last.cfg.trigger = "media"
    /\ last.call = "none"
    /\ last.ev.cameraID \in getTriggeredCameraIDs(states)

\* The trigger action as the specification states it: the call of the view
\* manager and the camera it names.
StatedTriggerAction(ev, cfg) ==
    IF cfg.trigger = "update" THEN <<"refresh", NoCamera>>
    ELSE IF cfg.trigger = "live" THEN <<"live", ev.cameraID>>
    ELSE IF cfg.trigger = "default" THEN <<"default", ev.cameraID>>
    ELSE IF cfg.trigger = "media" /\ ev.fidelity = "high"
         THEN <<IF ev.clip THEN "clip" ELSE "snapshot", ev.cameraID>>
    ELSE <<"none", NoCamera>>

\* C17: a call of _triggerAction whose gate allows and whose event is not
\* suppressed dispatches the configured action: 'update' a refresh that
\* names no view and no camera, 'live' the live view of the event's camera,
\* 'default' the default view of the event's camera, 'media' for a
\* high-fidelity event the clip view of the event's camera if the event has
\* a clip and the snapshot view otherwise and nothing for another event, and
\* 'none' nothing.
C17_TriggerActionMapping ==
    [][LET run == last'
       IN  (/\ TriggerRun(run)
            /\ GateAllows(run.cfg, run.interaction)
            /\ ~(NoMedia(run.invoked) /\ ~ToLive(run.cfg)))
              => <<run.call, run.callCamera>>
                    = StatedTriggerAction(run.invoked, run.cfg)
      ]_vars

\* Under the trigger action 'media' an event with both a clip and a
\* snapshot was dispatched to the clip view of its camera.
C17_Witness ==
    /\ TriggerRun(last)
    /\ last.cfg.present
    /\ last.cfg.trigger = "media"
    /\ last.invoked.clip
    /\ last.invoked.snapshot
    /\ last.call = "clip"
    /\ last.callCamera = last.invoked.cameraID

\* C18: the throttle is trailing-edge only: of the events taken in one
\* window of the throttle a single trigger action is dispatched.
C18_SingleActionPerWindow ==
    windowDispatched <= 1

\* The cameras of a sequence of events.
CamerasOf(events) ==
    {events[i].cameraID : i \in DOMAIN events}

\* C19: the handleCameraEvent calls of handleInitialCameraTriggers invoke no
\* trigger action and leave the camera of every accepted event triggered;
\* when the scan is over, the cameras of all accepted events are triggered
\* and the method has called _throttledTriggerAction once, with the first
\* accepted event, and not at all if no event was accepted; outside a
\* throttle window that call runs _triggerAction with that event at once.
C19_InitialTriggers ==
    [][LET run == last'
           sc == scan'
       IN  /\ run.op = "new" =>
                 /\ run.invoked = NoEvent
                 /\ UNCHANGED <<triggering, throttleTimer, throttleArgs,
                                throttleCooling>>
                 /\ sc.throttled = <<>>
                 /\ run.ret = "true"
                       => run.ev.cameraID \in getTriggeredCameraIDs(states')
           /\ sc.phase \in {"awaiting", "returned", "rejected"} =>
                 /\ CamerasOf(sc.accepted) \subseteq getTriggeredCameraIDs(states')
                 /\ sc.throttled = IF sc.accepted = <<>> THEN <<>>
                                   ELSE <<sc.accepted[1]>>
           /\ (run.op = "initial" /\ ~throttleTimer /\ ~throttleCooling) =>
                 run.invoked = sc.accepted[1]
      ]_vars

\* A scan has returned after the events of two cameras were accepted, the
\* first for camera_1: both cameras are triggered and the one call of
\* _throttledTriggerAction was made with the event of camera_1.
C19_Witness ==
    /\ last.op = "initial_return"
    /\ CamerasOf(scan.accepted) = Cameras
    /\ Len(scan.accepted) >= 2
    /\ scan.throttled = <<scan.accepted[1]>>
    /\ scan.accepted[1].cameraID = "camera_1"
    /\ getTriggeredCameraIDs(states) = Cameras

\* An entity of the scan is in a triggered state.
SomeEntityTriggered(hass) ==
    \E c \in Cameras :
        \E i \in DOMAIN TriggersEntities[c] :
            hass[TriggersEntities[c][i]] \in {"on", "open"}

\* C20: handleInitialCameraTriggers returns true exactly when a trigger
\* entity of some camera is in a triggered state in the hass it read,
\* whether or not an event was accepted.
C20_InitialTriggersReturn ==
    [][last'.op = "initial_return" =>
          /\ last'.ret \in {"true", "false"}
          /\ (last'.ret = "true") <=> SomeEntityTriggered(scan'.hass)
      ]_vars

\* The method has returned true although no event was accepted and no camera
\* is triggered.
C20_Witness ==
    /\ last.op = "initial_return"
    /\ last.ret = "true"
    /\ scan.accepted = <<>>
    /\ ~isTriggered(states)

\* C21: every run that changes the derived set of triggered cameras gives
\* the new set to the condition state manager: the set of the triggered
\* cameras, or undefined when no camera is triggered.
C21_SinkFollowsStore ==
    [][getTriggeredCameraIDs(states') # getTriggeredCameraIDs(states)
          => /\ last'.sink
             /\ last'.sunk = ConditionState(states')
             /\ last'.sunk.defined <=> last'.sunk.ids # {}
      ]_vars

\* The running timers whose callback is for a camera.
TimersFor(tm, cameraID) ==
    {t \in DOMAIN tm : tm[t] = cameraID}

\* C22: a run for one camera (an event, the expiry of its grace timer, the
\* completion or the failure of its untrigger) leaves every other camera as
\* it is: its entry in the store, its running timers and its membership in
\* the triggered set; and the call the run makes names no other camera.
C22_CameraIndependence ==
    [][LET run == last'
       IN  run.op \in {"new", "end", "timer", "untriggered", "untrigger_failed"} =>
              \A b \in Cameras \ {run.cam} :
                 /\ (b \in DOMAIN states') <=> (b \in DOMAIN states)
                 /\ b \in DOMAIN states => states'[b] = states[b]
                 /\ TimersFor(timers', b) = TimersFor(timers, b)
                 /\ (b \in getTriggeredCameraIDs(states'))
                       <=> (b \in getTriggeredCameraIDs(states))
                 /\ run.callCamera # b
      ]_vars

\* The untrigger of camera_1 has completed while camera_2 waits for its
\* grace timer: camera_1 is gone and camera_2 is triggered, its timer
\* running.
C22_Witness ==
    /\ last.op = "untriggered"
    /\ last.cam = "camera_1"
    /\ "camera_1" \notin DOMAIN states
    /\ "camera_2" \in getTriggeredCameraIDs(states)
    /\ TimerOf(states, "camera_2") \in TimersFor(timers, "camera_2")

\* C23: getMostRecentlyTriggeredCameraID returns null when no camera is
\* triggered, and otherwise a triggered camera whose lastTriggerTime no
\* triggered camera exceeds; an accepted new or update event sets the
\* lastTriggerTime of its camera to the time of the event, and no other run
\* changes the lastTriggerTime of an entry.
C23_MostRecentlyTriggered ==
    [][LET run == last'
           triggered == getTriggeredCameraIDs(states')
       IN  /\ \A r \in getMostRecentlyTriggeredCameraID(states') :
                 IF triggered = {} THEN r = NoCamera
                 ELSE /\ r \in triggered
                      /\ \A d \in triggered :
                            states'[d].lastTriggerTime <= states'[r].lastTriggerTime
           /\ \A c \in DOMAIN states' :
                 IF run.op = "new" /\ run.ret = "true" /\ c = run.cam
                 THEN states'[c].lastTriggerTime = now
                 ELSE /\ c \in DOMAIN states
                      /\ states'[c].lastTriggerTime = states[c].lastTriggerTime
      ]_vars

\* camera_1 has the later event but lost its source and awaits its
\* untrigger, camera_2 is triggered: camera_2 is the result.
C23_Witness ==
    /\ {"camera_1", "camera_2"} \subseteq DOMAIN states
    /\ "camera_1" \notin getTriggeredCameraIDs(states)
    /\ states["camera_1"].lastTriggerTime > states["camera_2"].lastTriggerTime
    /\ last.op = "end"
    /\ getMostRecentlyTriggeredCameraID(states) = {"camera_2"}

\* C24: a run that dispatches an action has changed the store and given the
\* derived set to the condition state manager before: with the trigger
\* action of an event the source is in the entry of the camera, with the
\* untrigger action the entry of the camera is deleted, and in both the set
\* published is the derived one; so that after a dispatch that failed the
\* store holds no entry without a source and a timer.
C24_MutationBeforeDispatch ==
    [][LET run == last'
       IN  /\ (run.op = "new" /\ run.call \in TriggerCalls) =>
                 /\ run.ev.id \in SourcesOf(states', run.cam)
                 /\ run.sink
                 /\ run.sunk = ConditionState(states')
           /\ run.call = "untrigger_default" =>
                 /\ run.cam \notin DOMAIN states'
                 /\ run.sink
                 /\ run.sunk = ConditionState(states')
           /\ run.op \in {"untrigger_failed", "trigger_failed"} =>
                 \A c \in DOMAIN states' : isStateTriggered(states'[c])
      ]_vars

\* C25: at most one untrigger timer is running for a camera, and it is the
\* one that the entry of the camera holds.
C25_OneTimerPerCamera ==
    \A c \in Cameras :
        /\ Cardinality(TimersFor(timers, c)) <= 1
        /\ TimersFor(timers, c) \subseteq {TimerOf(states, c)}

\* C26: every entry of the store has a source or holds an untrigger timer.
C26_NoTombstones ==
    \A c \in DOMAIN states :
        \/ states[c].sources # {}
        \/ states[c].untriggerDelayTimer # NoTimer

\* C27: an _untriggerAction that completes for a camera whose entry has
\* got a source since leaves the entry with its sources, and the camera
\* triggered.
C27_NewCancelsUntrigger ==
    [][(/\ last'.op = "untriggered"
        /\ SourcesOf(states, last'.cam) # {})
       => /\ last'.cam \in DOMAIN states'
          /\ SourcesOf(states', last'.cam) = SourcesOf(states, last'.cam)
          /\ last'.cam \in getTriggeredCameraIDs(states')
      ]_vars

C29_NothingAfterDestroy ==
    [][/\ last'.op = "destroy" =>
             /\ timers' = <<>>
             /\ ~throttleTimer'
       /\ destroyed => last'.call = "none"
      ]_vars

\* C30: the run of every accepted new or update event updates the card
\* element, or leaves the update to the _triggerAction it has suspended or
\* to the trailing call of the throttle that holds its event; and every
\* completed untrigger updates the card element.
C30_UpdateAfterEveryChange ==
    [][LET run == last'
       IN  /\ (run.op = "new" /\ run.ret = "true") =>
                 \/ run.updated
                 \/ triggering'[run.cam] > triggering[run.cam]
                 \/ throttleArgs' = run.ev
           /\ run.op = "untriggered" => run.updated
      ]_vars

\* C31: the expiry of the grace timer of a camera dispatches the untrigger
\* action, once, whether or not another camera is triggered, and the other
\* camera is triggered after it exactly if it was before; so the expiry of
\* the timer of each of two triggered cameras dispatches the default view.
C31_UntriggerPerCamera ==
    [][last'.op = "timer" =>
          /\ last'.call = "untrigger_default"
          /\ InFlight(untriggering') = InFlight(untriggering) + 1
          /\ \A b \in Cameras \ {last'.cam} :
                (b \in getTriggeredCameraIDs(states'))
                   <=> (b \in getTriggeredCameraIDs(states))
      ]_vars

\* The grace timer of camera_1 has expired and the default view was
\* dispatched while camera_2 is triggered.
C31_Witness ==
    /\ last.op = "timer"
    /\ last.cam = "camera_1"
    /\ last.call = "untrigger_default"
    /\ "camera_1" \notin getTriggeredCameraIDs(states)
    /\ "camera_2" \in getTriggeredCameraIDs(states)

\* C32: every state change of a trigger entity the base camera is subscribed
\* for makes a camera that has an ID and an event callback pass exactly one
\* event to the callback, with its camera ID, the entity ID as source ID and
\* the type 'new' when the new state is a triggered state and 'end'
\* otherwise; and the camera subscribes its handler only when its
\* capabilities have 'trigger'.
C32_OneEventPerStateChange ==
    [][/\ (emitted'.op = "state_change" /\ camera.eventCallback /\ HasID(camera))
          => /\ ~emitted'.threw
             /\ Len(emitted'.events) = 1
             /\ emitted'.events[1].cameraID = camera.id
             /\ emitted'.events[1].id = emitted'.difference.entityID
             /\ emitted'.events[1].type =
                   IF isTriggeredState(emitted'.difference.newState)
                   THEN "new" ELSE "end"
       /\ (camera'.stateSubscription.active
             /\ camera'.stateSubscription # camera.stateSubscription)
          => /\ camera'.capabilities.present
             /\ "trigger" \in camera'.capabilities.has
             /\ camera'.stateSubscription.entities = camera.entities
      ]_vars

C32_Witness ==
    /\ emitted.op = "state_change"
    /\ camera.engine = "generic"
    /\ camera.id = "camera_1"
    /\ emitted.difference.oldState = "on"
    /\ emitted.difference.newState = "off"
    /\ emitted.events = <<CameraEvent("camera_1", "entity_2", "end",
                                      "low", FALSE, FALSE)>>

\* Whether the last Frigate event change is to be forwarded: the camera has
\* an ID, the zone and label filters match, and triggers.events has
\* 'events', or 'snapshots' with a changed snapshot, or 'clips' with a
\* changed clip.
C33_Forwards(cam, ev) ==
    /\ cam.id # NoCamera
    /\ cam.zones = {} \/ \E z \in cam.zones : z \in ev.after.current_zones
    /\ cam.labels = {} \/ ev.after.label \in cam.labels
    /\ \/ "events" \in cam.events
       \/ /\ "snapshots" \in cam.events
          /\ \/ ~ev.before.has_snapshot /\ ev.after.has_snapshot
             \/ ev.before.frame_time # ev.after.frame_time
       \/ "clips" \in cam.events /\ ~ev.before.has_clip /\ ev.after.has_clip

\* C33: the Frigate camera forwards a change of an event exactly when its
\* camera ID is set, the zone and label filters match, and the configured
\* trigger events include 'events', or 'snapshots' and the snapshot changed,
\* or 'clips' and the clip changed; the forwarded event has fidelity
\* 'high', the type of the change, the Frigate event ID as source ID, clip
\* set when the clip changed and 'clips' is configured, snapshot set when
\* the snapshot changed and 'snapshots' is configured.
C33_FrigateForwarding ==
    [][emitted'.op = "frigate_event" =>
          LET ev == emitted'.change
          IN  IF C33_Forwards(camera, ev)
              THEN emitted'.events =
                     <<[cameraID |-> camera.id, id |-> ev.id, type |-> ev.type,
                        fidelity |-> "high",
                        clip |-> (~ev.before.has_clip /\ ev.after.has_clip
                                     /\ "clips" \in camera.events),
                        snapshot |->
                            ((\/ ~ev.before.has_snapshot /\ ev.after.has_snapshot
                              \/ ev.before.frame_time # ev.after.frame_time)
                                /\ "snapshots" \in camera.events)]>>
              ELSE emitted'.events = <<>>
      ]_vars

C33_Witness ==
    /\ emitted.op = "frigate_event"
    /\ camera.events = {"snapshots", "clips"}
    /\ camera.zones = {"zone_1"}
    /\ emitted.change.type = "update"
    /\ emitted.change.before.has_clip /\ emitted.change.after.has_clip
    /\ emitted.events = <<CameraEvent("camera_1", "event_1", "update", "high",
                                      FALSE, TRUE)>>

\* C38: when a new or update of a Frigate event was forwarded, the end of
\* the event with the same ID is forwarded as well, whatever the zones, the
\* label and the snapshot and clip changes of the end are.
C38_EndForwarded ==
    [][(/\ emitted'.op = "frigate_event"
        /\ emitted'.change.type = "end"
        /\ emitted'.change.id \in emitted.open)
          => /\ Len(emitted'.events) = 1
             /\ emitted'.events[1].type = "end"
             /\ emitted'.events[1].id = emitted'.change.id
      ]_vars

\* C34: whatever the order of the handleCameraEvent calls, the timer
\* expiries and the completions of suspended dispatches, the stored source
\* set of a camera is the set of the sources with an accepted new or update
\* event and no later end event: only an accepted new or update event adds
\* a source (its own), only an end event removes one (its own), and a
\* camera with a source has an entry and is triggered.
C34_SourcesAcceptedMinusEnded ==
    [][\A c \in Cameras :
          /\ SourcesOf(states', c) =
                IF NewRun(last', c) /\ last'.ret = "true"
                THEN SourcesOf(states, c) \cup {last'.ev.id}
                ELSE IF EndRun(last', c)
                THEN SourcesOf(states, c) \ {last'.ev.id}
                ELSE SourcesOf(states, c)
          /\ SourcesOf(states', c) # {}
                => c \in DOMAIN states' /\ c \in getTriggeredCameraIDs(states')
      ]_vars

\* C35: in every reachable state an entry of the store that holds an
\* untrigger timer has no source.
C35_TimerExcludesSources ==
    \A c \in DOMAIN states :
        states[c].untriggerDelayTimer # NoTimer => states[c].sources = {}

C35_Witness ==
    /\ last.op = "new" /\ last.ret = "true" /\ last.stopped # NoTimer
    /\ states[last.cam].sources # {}
    /\ states[last.cam].untriggerDelayTimer = NoTimer

\* C36: every running untrigger timer is the timer that the store entry of
\* its camera holds: no timer runs for a camera without an entry or for an
\* entry that holds another timer or none.
C36_TimersReferenced ==
    \A t \in DOMAIN timers :
        /\ timers[t] \in DOMAIN states
        /\ states[timers[t]].untriggerDelayTimer = t

\* C37: a run that dispatches a trigger action to the view manager does so
\* for a camera that is in the triggered set: the trailing call of the
\* throttle dispatches nothing for a camera that has untriggered since its
\* event was held.
C37_TriggerOnlyWhileTriggered ==
    [][last'.call \in TriggerCalls
          => last'.invoked.cameraID \in getTriggeredCameraIDs(states')
      ]_vars

\* C40: the sources of a camera are a set: however many new and update
\* events of a source were accepted, one end event of the source removes it
\* from the sources of its camera, and when it was the only source the end
\* event starts the untrigger of the camera (its grace timer, or with no
\* grace period _untriggerAction at once).
C40_SourcesAreASet ==
    [][(/\ last'.op = "end"
        /\ last'.ev.id \in SourcesOf(states, last'.cam))
          => /\ last'.ev.id \notin SourcesOf(states', last'.cam)
             /\ SourcesOf(states, last'.cam) = {last'.ev.id}
                  => \/ /\ last'.started # NoTimer
                        /\ TimerOf(states', last'.cam) = last'.started
                     \/ InFlight(untriggering') = InFlight(untriggering) + 1
      ]_vars

C40_Witness ==
    /\ last.op = "end"
    /\ last.removed
    /\ acceptedEvents[last.cam][last.ev.id].closed >= 2
    /\ SourcesOf(states, last.cam) = {}
    /\ last.started # NoTimer

\* The camera has an entry whose sources have all ended.
AllSourcesEnded(c) ==
    c \in DOMAIN states /\ states[c].sources = {}

\* _untriggerAction has removed the entry of the camera and given the
\* condition state manager a set without the camera.
UntriggerPublished(c) ==
    /\ c \notin DOMAIN states
    /\ last.op = "untriggered" /\ last.cam = c
    /\ last.sink /\ c \notin last.sunk.ids

\* C39: when all sources of a camera have ended, then, the grace timer
\* firing and the dispatch returning, either a new or update event of the
\* camera is accepted or eventually the entry of the camera is removed
\* from the store and the published set of triggered cameras is without
\* the camera.
C39_EventuallyUntriggered ==
    \A c \in {"camera_1"} :
        AllSourcesEnded(c) ~> (SourcesOf(states, c) # {} \/ UntriggerPublished(c))

C39_Witness ==
    /\ UntriggerPublished("camera_1")
    /\ last.awaited = "call"
    /\ timers = <<>>
    /\ InFlight(untriggering) = 0

====
